---- MODULE Spec2Model ----
(***************************************************************************)
(* Client download queue of src/components/video-url-form.tsx              *)
(* (VideoUrlForm), with the transfer of src/unnamed/part_001               *)
(* (downloadVideo) and the buttons of DownloadProgress (src/Dockerfile,    *)
(* lines 43-270).                                                          *)
(*                                                                         *)
(* React scheduling as the component sees it:                              *)
(*  - setDownloads / setActiveDownloads append an update to the            *)
(*    component's update queue; a render applies the pending updates in    *)
(*    the order they were dispatched.  An updater function runs inside     *)
(*    that render, so startDownload, called from the updater of            *)
(*    processQueue, runs in the render: its own setDownloads is applied    *)
(*    after the other pending updates of that render, its                  *)
(*    setActiveDownloads within that render.                               *)
(*  - a click handler is followed, in the same task, by the flush of a     *)
(*    pending effect, the render of everything pending and the effect of   *)
(*    that render.  Updates dispatched from an effect, a timer or an       *)
(*    XMLHttpRequest event are rendered by a later task.                   *)
(*  - downloadQueueRef is a ref: it is written at once, by the handler.    *)
(*  - an updater runs once per render, as in a production build.           *)
(***************************************************************************)
EXTENDS Integers, Sequences, FiniteSets, TLC

\* ---- bounds of the model ----
MaxItems == 3
MaxRetries == 1
MaxProgressEvents == 1
MaxFailures == 1
\* creations, retries, failed transfers and progress events, taken together
MaxInputs == 4

\* ---- program constants ----
MAX_CONCURRENT_DOWNLOADS == 1

NoProgress == -1
NoError == ""

ProgressValues == {0, 60}

Statuses == {"queued", "preparing", "downloading", "completed", "error", "cancelled"}

\* the ways the load / error events of the request can end a transfer
Outcomes == {"ok", "badtype", "empty", "s429", "s413", "s408", "s500", "network"}

VARIABLES
  downloads,        \* useState<DownloadItem[]>: the committed list, newest first
  activeDownloads,  \* useState(0): the committed counter
  downloadQueueRef, \* useRef<string[]>: pending identifiers
  updates,          \* dispatched state updates not yet rendered, in dispatch order
  effect,           \* the effect of the last commit, if it has not run yet
  timers,           \* setTimeout(() => processQueue(), 0) callbacks not yet run
  xhrs,             \* requests in flight
  aborted,          \* AbortControllers whose abort() was called
  nextId,           \* identifiers handed out so far
  retries,          \* retry clicks so far
  failures,         \* transfers that failed so far
  progressEvents,   \* progress events delivered so far
  sameMs,           \* creations that got the Date.now() of the creation before
  qTick,            \* history: enqueue ticket of each entry of downloadQueueRef
  hist,             \* history, see NoHist
  now,                  \* Date.now() of the server process, in milliseconds
  rateLimitMap,         \* route.ts: Map<string, {count, resetTime}>
  downloadRateLimitMap, \* download route: Map<string, {count, resetTime}>
  lhist,                \* history of the limiter calls, see NoLimiterHist
  req,                  \* the request a route handler is serving, see NoRequest
  file,                 \* the downloaded file of that request, see NoFile
  inflight,             \* the handlers running concurrently, see NoInflight
  formatsCall,          \* a call of processFormats: its argument and what it returned
  urlCall,              \* a call of validateYouTubeUrl: its argument and what it returned
  served,               \* the 200 response of the download route the page loaded last, see NoServed
  procs,                \* the yt-dlp subprocesses started for requests of the page
  tempDir,              \* os.tmpdir(): the files in it
  posts                 \* download handlers that share tempDir, see NoPost

\* the state of the browser page
cvars == <<downloads, activeDownloads, downloadQueueRef, updates, effect, timers,
           xhrs, aborted, nextId, retries, failures, progressEvents, sameMs, qTick, hist>>

\* what the specifications of concurrent handlers and of single functions add
xvars == <<served, procs, tempDir, posts>>
fvars == <<formatsCall, urlCall, xvars>>
ovars == <<inflight, fvars>>

\* the state of the server process
svars == <<now, rateLimitMap, downloadRateLimitMap, lhist, req, file, ovars>>

\* the part of it the route handlers keep per request
rvars == <<req, file>>

vars == <<downloads, activeDownloads, downloadQueueRef, updates, effect, timers,
          xhrs, aborted, nextId, retries, failures, progressEvents, sameMs, qTick, hist,
          now, rateLimitMap, downloadRateLimitMap, lhist, req, file,
          inflight, formatsCall, urlCall, served, procs, tempDir, posts>>

\* every handleDownload and every handleRetryDownload constructs one
\* AbortController and pushes one identifier
nextCtrl == nextId + retries + sameMs
nextTick == nextId + retries + sameMs

Inputs == nextId + retries + failures + progressEvents

\* ---- sequences ----
RECURSIVE SelectIdx(_, _, _)
SelectIdx(s, keep, i) ==
  IF i > Len(s) THEN <<>>
  ELSE IF i \in keep THEN <<s[i]>> \o SelectIdx(s, keep, i + 1)
       ELSE SelectIdx(s, keep, i + 1)

Range(s) == {s[i] : i \in 1..Len(s)}

\* Array.prototype.find on the id: the first item with that id
HasItem(dl, id) == \E i \in 1..Len(dl) : dl[i].id = id
Find(dl, id) == dl[CHOOSE i \in 1..Len(dl) :
                     dl[i].id = id /\ \A j \in 1..(i - 1) : dl[j].id # id]

\* ---- DownloadProgress: which buttons an item shows ----
CancelShown(d) == d.status \in {"queued", "preparing", "downloading"}
RetryShown(d) == d.status = "error" /\ d.error # NoError
ClearShown(dl) == \E i \in 1..Len(dl) : dl[i].status = "completed"

\* ---- startDownload: the message stored for a failed transfer ----
\* downloadVideo rejects with APIError(message, status); startDownload maps it
ErrorMessage(o) ==
  CASE o = "s429" -> "Too many downloads at once! Give us a moment and try again."
    [] o = "s413" -> "This file is too large. Try selecting a smaller quality option."
    [] o = "s408" -> "Download took too long. Please try again."
    [] o = "s500" -> "Download failed"
    [] o = "badtype" -> "Invalid file type received"
    [] o = "empty" -> "Downloaded file is empty"
    [] o = "network" -> "Network error. Please check your connection."
    [] OTHER -> "Download failed. Let's try that again."

\* ---- state updates ----
\* t: the kind; id: the item; n: a number; s: a string; k: the enqueue ticket
Upd(t, id, n, s, k) == [t |-> t, id |-> id, n |-> n, s |-> s, k |-> k]

UAdd(id, ctrl) == Upd("add", id, ctrl, "", 0)
UAdmit(id, active, tick) == Upd("admit", id, active, "", tick)
UStatus(id, st) == Upd("status", id, 0, st, 0)
UError(id, msg) == Upd("error", id, 0, msg, 0)
UProgress(id, p) == Upd("progress", id, p, "", 0)
URetry(id, ctrl) == Upd("retry", id, ctrl, "", 0)
UClear == Upd("clear", 0, 0, "", 0)
UActive(delta) == Upd("active", 0, delta, "", 0)

\* handleDownload: the new item
NewDownload(id, ctrl) ==
  [id |-> id, status |-> "queued", progress |-> NoProgress, error |-> NoError,
   ctrl |-> ctrl, meta |-> TRUE]

\* a retry that leaves the item its AbortController
RetryUpdaterKeepsController(dl, id, ctrl) ==
  [i \in 1..Len(dl) |->
     IF dl[i].id = id
     THEN [dl[i] EXCEPT !.status = "queued", !.error = NoError,
                        !.progress = NoProgress]
     ELSE dl[i]]

\* a retry that forgets `progress: undefined`
RetryUpdaterKeepsProgress(dl, id, ctrl) ==
  [i \in 1..Len(dl) |->
     IF dl[i].id = id
     THEN [dl[i] EXCEPT !.status = "queued", !.error = NoError, !.ctrl = ctrl]
     ELSE dl[i]]

\* handleRetryDownload: the updater
RetryUpdater(dl, id, ctrl) ==
  [i \in 1..Len(dl) |->
     IF dl[i].id = id
     THEN [dl[i] EXCEPT !.status = "queued", !.error = NoError,
                        !.progress = NoProgress, !.ctrl = ctrl]
     ELSE dl[i]]

\* a clear that drops every item that has ended
ClearUpdaterAllEnded(dl) ==
  SelectIdx(dl, {i \in 1..Len(dl) :
                   dl[i].status \notin {"completed", "error", "cancelled"}}, 1)

\* handleClearCompleted: the updater
ClearUpdater(dl) ==
  SelectIdx(dl, {i \in 1..Len(dl) : dl[i].status # "completed"}, 1)

\* setDownloads((prev) => prev.map(... status ...))
StatusUpdater(dl, id, st) ==
  [i \in 1..Len(dl) |->
     IF dl[i].id = id THEN [dl[i] EXCEPT !.status = st] ELSE dl[i]]

\* startDownload, catch: status error with the message
ErrorUpdater(dl, id, msg) ==
  [i \in 1..Len(dl) |->
     IF dl[i].id = id
     THEN [dl[i] EXCEPT !.status = "error", !.error = msg]
     ELSE dl[i]]

\* startDownload, progress callback
ProgressUpdater(dl, id, p) ==
  [i \in 1..Len(dl) |->
     IF dl[i].id = id THEN [dl[i] EXCEPT !.progress = p] ELSE dl[i]]

\* the updaters that only compute the next list
ApplyDl(dl, u) ==
  CASE u.t = "add" -> <<NewDownload(u.id, u.n)>> \o dl
    [] u.t = "status" -> StatusUpdater(dl, u.id, u.s)
    [] u.t = "error" -> ErrorUpdater(dl, u.id, u.s)
    [] u.t = "progress" -> ProgressUpdater(dl, u.id, u.n)
    [] u.t = "retry" -> RetryUpdater(dl, u.id, u.n)
    [] u.t = "clear" -> ClearUpdater(dl)
    [] OTHER -> dl

\* ---- history ----
NoRetry == [id |-> 0, pre |-> <<>>, post |-> <<>>, qpre |-> <<>>, qpost |-> <<>>]
NoSkip ==
  [on |-> FALSE, k |-> 0, pre |-> <<>>, post |-> <<>>, apre |-> 0, apost |-> 0,
   xpre |-> {}, xpost |-> {}, tpre |-> <<>>, tpost |-> <<>>]
NoDeferred == [on |-> FALSE, active |-> 0, qpre |-> <<>>]

NoHist ==
  [admitLog |-> <<>>,    \* the entries into preparing, in order: id, ticket,
                         \* and the identifiers settled before the entry
   trans |-> {},         \* the status changes of the last step, as <<from, to>>
   added |-> {},         \* identifiers the last step added to the list
   settled |-> {},       \* identifiers that have been completed, error or cancelled
   cancelledQ |-> {},    \* cancelled while shown queued, not retried since
   sent |-> {},          \* of those, the ones a request was sent for
   retry |-> NoRetry,    \* the retry of the last step: lists and queues around it
   failed |-> {},        \* <<id, outcome>> of failed transfers, not retried since
   abortedIds |-> {},    \* transfers aborted by a cancel click, not retried since
   clickedActive |-> {}, \* cancel clicked while shown preparing or downloading,
                         \* not retried since
   lost |-> {},          \* <<id, status, update>> of the items taken out of the
                         \* list: the status they had and the update that did it
   clearKept |-> TRUE,   \* every clear so far left the list it found, less its
                         \* completed items: same items, same order, same fields
   queueKept |-> TRUE,   \* every clear so far left the queue ref as it found it
   reissued |-> {},      \* identifiers retried after abort() had been called on
                         \* the AbortController the item held
   skip |-> NoSkip,      \* the last admission of the last step that found no
                         \* queued item: list, counter, requests, timers around it
   skipped |-> {},       \* tickets of the admissions that found no queued item
   deferred |-> NoDeferred, \* the setTimeout callback of the last step: the
                         \* counter of its closure and the queue it found
   viaTimer |-> {}]      \* tickets taken from the queue by a setTimeout callback

\* what a step starts from: the records of the last step are dropped
StepHist ==
  [hist EXCEPT !.trans = {}, !.added = {}, !.retry = NoRetry,
               !.skip = NoSkip, !.deferred = NoDeferred]

Ids(dl) == {dl[i].id : i \in 1..Len(dl)}
Changes(a, b) ==
  {<<Find(a, id).status, Find(b, id).status>> :
     id \in {x \in Ids(a) \cap Ids(b) : Find(a, x).status # Find(b, x).status}}
Terminal == {"completed", "error", "cancelled"}
SettledIn(dl) == {dl[i].id : i \in {j \in 1..Len(dl) : dl[j].status \in Terminal}}

\* a render in progress: the list, the counter, the updates dispatched by
\* the render itself, the requests, the timers and the history
Track(R, dl) ==
  [R EXCEPT !.dl = dl,
            !.h.trans = @ \cup Changes(R.dl, dl),
            !.h.added = IF Len(dl) <= Len(R.dl) THEN @
                        ELSE @ \cup (Ids(dl) \ Ids(R.dl)),
            !.h.settled = @ \cup SettledIn(dl)]

\* a startDownload that does not count the transfer
startDownloadUncounted(R, id, ctrl) ==
  [R EXCEPT !.rp = Append(@, UStatus(id, "downloading")),
            !.xhrs = @ \cup {[id |-> id, ctrl |-> ctrl]},
            !.h.sent = IF id \in R.h.cancelledQ THEN @ \cup {id} ELSE @]

\* ---- startDownload, up to the await: runs inside the render ----
startDownload(R, id, ctrl) ==
  [R EXCEPT !.act = @ + 1,
            !.rp = Append(@, UStatus(id, "downloading")),
            !.xhrs = @ \cup {[id |-> id, ctrl |-> ctrl]},
            !.h.sent = IF id \in R.h.cancelledQ THEN @ \cup {id} ELSE @]

\* an updater that gives up on an item that is not queued
AdmitUpdaterNoTimer(R, u) ==
  IF ~HasItem(R.dl, u.id) \/ Find(R.dl, u.id).status # "queued"
  THEN R
  ELSE IF ~Find(R.dl, u.id).meta
  THEN [R EXCEPT !.timers = Append(@, u.n)]
  ELSE LET R1 == startDownload(R, u.id, Find(R.dl, u.id).ctrl)
           R2 == [R1 EXCEPT
                    !.h.admitLog = Append(@, [id |-> u.id, tick |-> u.k,
                                              settled |-> R.h.settled])]
       IN Track(R2, StatusUpdater(R.dl, u.id, "preparing"))

\* ---- processQueue: the updater given to setDownloads ----
AdmitUpdater(R, u) ==
  IF ~HasItem(R.dl, u.id) \/ Find(R.dl, u.id).status # "queued"
  THEN [R EXCEPT !.timers = Append(@, u.n)]
  ELSE IF ~Find(R.dl, u.id).meta
  THEN [R EXCEPT !.timers = Append(@, u.n)]
  ELSE LET R1 == startDownload(R, u.id, Find(R.dl, u.id).ctrl)
           R2 == [R1 EXCEPT
                    !.h.admitLog = Append(@, [id |-> u.id, tick |-> u.k,
                                              settled |-> R.h.settled])]
       IN Track(R2, StatusUpdater(R.dl, u.id, "preparing"))

\* the one element of a singleton: binds a value that is computed once
Only(S) == CHOOSE x \in S : TRUE

\* the items of list a that list b no longer holds
Lost(a, b, update) ==
  {<<id, Find(a, id).status, update>> : id \in Ids(a) \ Ids(b)}

ApplyOne(R, u) ==
  CASE u.t = "active" -> [R EXCEPT !.act = @ + u.n]
    [] u.t = "admit" ->
         LET R1 == AdmitUpdater(R, u)
         IN IF HasItem(R.dl, u.id) /\ Find(R.dl, u.id).status = "queued"
            THEN R1
            ELSE [R1 EXCEPT
                    !.h.skipped = @ \cup {u.k},
                    !.h.skip = [on |-> TRUE, k |-> u.k,
                                pre |-> R.dl, post |-> R1.dl,
                                apre |-> R.act, apost |-> R1.act,
                                xpre |-> R.xhrs, xpost |-> R1.xhrs,
                                tpre |-> R.timers, tpost |-> R1.timers]]
    [] u.t = "retry" ->
         LET R1 == Track(R, ApplyDl(R.dl, u))
         IN [R1 EXCEPT !.h.retry = [@ EXCEPT !.pre = R.dl, !.post = R1.dl]]
    [] u.t = "clear" ->
         LET R1 == Track(R, ApplyDl(R.dl, u))
         IN [R1 EXCEPT
               !.h.lost = @ \cup Lost(R.dl, R1.dl, u.t),
               !.h.clearKept =
                  @ /\ R1.dl = SelectSeq(R.dl, LAMBDA d : d.status # "completed")]
    [] OTHER ->
         Only({IF Len(r.dl) >= Len(R.dl) THEN r
               ELSE [r EXCEPT !.h.lost = @ \cup Lost(R.dl, r.dl, u.t)] :
                 r \in {Track(R, ApplyDl(R.dl, u))}})

RECURSIVE ApplyAll(_, _)
ApplyAll(R, us) ==
  IF us = <<>> THEN R
  ELSE Only({ApplyAll(r, Tail(us)) : r \in {ApplyOne(R, Head(us))}})

\* one render: the pending updates in order, then the updates that
\* startDownload dispatched while the render was running
RenderAll(R, us) ==
  Only({ApplyAll([r EXCEPT !.rp = <<>>], r.rp) : r \in {ApplyAll(R, us)}})

\* a processQueue that looks at the queue only
processQueueUnguarded(active, S) ==
  IF Len(S.q) = 0
  THEN S
  ELSE [q |-> Tail(S.q), qt |-> Tail(S.qt),
        ups |-> Append(S.ups, UAdmit(Head(S.q), active, Head(S.qt)))]

\* ---- processQueue, up to setDownloads: `active` is the value of
\* activeDownloads in the closure that runs it ----
processQueue(active, S) ==
  IF active >= MAX_CONCURRENT_DOWNLOADS \/ Len(S.q) = 0
  THEN S
  ELSE [q |-> Tail(S.q), qt |-> Tail(S.qt),
        ups |-> Append(S.ups, UAdmit(Head(S.q), active, Head(S.qt)))]

\* ---- the state a render starts from, and the state it leaves ----
RenderInput(h) ==
  [dl |-> downloads, act |-> activeDownloads, rp |-> <<>>, xhrs |-> xhrs,
   timers |-> timers, h |-> h]

QueueInput == [q |-> downloadQueueRef, qt |-> qTick, ups |-> updates]

\* an effect that depends on activeDownloads only
DepsChangedCountOnly(R) == R.act # activeDownloads

\* useEffect(..., [activeDownloads, downloads.length])
DepsChanged(R) == R.act # activeDownloads \/ Len(R.dl) # Len(downloads)

Commit(R, S, eff) ==
  /\ downloads' = R.dl
  /\ activeDownloads' = R.act
  /\ xhrs' = R.xhrs
  /\ timers' = R.timers
  /\ hist' = R.h
  /\ downloadQueueRef' = S.q
  /\ qTick' = S.qt
  /\ updates' = S.ups
  /\ effect' = eff

NoEffect == [on |-> FALSE, active |-> 0]

\* the rest of the task of a click: the effect still pending runs, all
\* pending updates are rendered, and the effect of that render runs
ClickFlush(R, S) ==
  LET S1 == IF effect.on THEN processQueue(effect.active, S) ELSE S
      R1 == RenderAll(R, S1.ups)
      S2 == [S1 EXCEPT !.ups = <<>>]
      S3 == IF DepsChanged(R1) THEN processQueue(R1.act, S2) ELSE S2
  IN Commit(R1, S3, NoEffect)

\* ================= the server process =================
\* Both route handlers run in one Node.js process.  A handler runs without
\* interruption up to its next await, so a call of checkRateLimit or
\* checkDownloadRateLimit is one step.

\* ---- bounds of the limiter behaviours ----
\* steps of the clock in one behaviour
MaxAdvances == 3
\* calls made by the client that is not observed
MaxOtherCalls == 1
\* files the subprocess of a request writes besides the one the handler locates
MaxExtraFiles == 1

\* ---- program constants ----
RATE_LIMIT_WINDOW == 60 * 1000
RATE_LIMIT_MAX_REQUESTS == 30
DOWNLOAD_RATE_LIMIT_WINDOW == 60 * 1000
DOWNLOAD_RATE_LIMIT_MAX_REQUESTS == 10

\* x-forwarded-for values: the histories follow client "a", "b" is another client
Keys == {"a", "b"}
Observed == "a"

Limiters == {"info", "download"}

\* the clock moves by a millisecond or by a millisecond less than a window, so
\* that a call can fall just before, exactly on and just after a reset time
Deltas == {1, RATE_LIMIT_WINDOW - 1}

NoTime == -1
NoEntry == [count |-> 0, resetTime |-> NoTime]
EmptyMap == [k \in {} |-> NoEntry]

\* Map.get: undefined is NoEntry
Get(map, ip) == IF ip \in DOMAIN map THEN map[ip] ELSE NoEntry

\* the loop over entries(): delete every key with now > resetTime
Expire(map, t) ==
  [k \in {k \in DOMAIN map : ~(t > map[k].resetTime)} |-> map[k]]

\* a limiter whose new entry lasts a millisecond longer than the window
checkLimitLongWindow(map, ip, t, window, max) ==
  LET m == Expire(map, t)
  IN IF ip \notin DOMAIN m \/ t > m[ip].resetTime
     THEN [map |-> [k \in DOMAIN m \cup {ip} |->
                      IF k = ip THEN [count |-> 1, resetTime |-> t + window + 1]
                                ELSE m[k]],
           allowed |-> TRUE]
     ELSE IF m[ip].count >= max
          THEN [map |-> m, allowed |-> FALSE]
          ELSE [map |-> [m EXCEPT ![ip].count = @ + 1], allowed |-> TRUE]

\* a limiter that allows without counting
checkLimitNoCount(map, ip, t, window, max) ==
  LET m == Expire(map, t)
  IN IF ip \notin DOMAIN m \/ t > m[ip].resetTime
     THEN [map |-> [k \in DOMAIN m \cup {ip} |->
                      IF k = ip THEN [count |-> 1, resetTime |-> t + window]
                                ELSE m[k]],
           allowed |-> TRUE]
     ELSE IF m[ip].count >= max
          THEN [map |-> m, allowed |-> FALSE]
          ELSE [map |-> m, allowed |-> TRUE]

\* a limiter that compares the count with > instead of >=
checkLimitOneMore(map, ip, t, window, max) ==
  LET m == Expire(map, t)
  IN IF ip \notin DOMAIN m \/ t > m[ip].resetTime
     THEN [map |-> [k \in DOMAIN m \cup {ip} |->
                      IF k = ip THEN [count |-> 1, resetTime |-> t + window]
                                ELSE m[k]],
           allowed |-> TRUE]
     ELSE IF m[ip].count > max
          THEN [map |-> m, allowed |-> FALSE]
          ELSE [map |-> [m EXCEPT ![ip].count = @ + 1], allowed |-> TRUE]

\* a limiter that counts an allowed call against every key
checkLimitSharedCount(map, ip, t, window, max) ==
  LET m == Expire(map, t)
  IN IF ip \notin DOMAIN m \/ t > m[ip].resetTime
     THEN [map |-> [k \in DOMAIN m \cup {ip} |->
                      IF k = ip THEN [count |-> 1, resetTime |-> t + window]
                                ELSE [m[k] EXCEPT !.count = @ + 1]],
           allowed |-> TRUE]
     ELSE IF m[ip].count >= max
          THEN [map |-> m, allowed |-> FALSE]
          ELSE [map |-> [k \in DOMAIN m |-> [m[k] EXCEPT !.count = @ + 1]],
                allowed |-> TRUE]

\* a limiter whose every allowed call starts the window again
checkLimitSlidingWindow(map, ip, t, window, max) ==
  LET m == Expire(map, t)
  IN IF ip \notin DOMAIN m \/ t > m[ip].resetTime
     THEN [map |-> [k \in DOMAIN m \cup {ip} |->
                      IF k = ip THEN [count |-> 1, resetTime |-> t + window]
                                ELSE m[k]],
           allowed |-> TRUE]
     ELSE IF m[ip].count >= max
          THEN [map |-> m, allowed |-> FALSE]
          ELSE [map |-> [m EXCEPT ![ip] = [count |-> @.count + 1,
                                           resetTime |-> t + window]],
                allowed |-> TRUE]

\* the body shared by checkRateLimit and checkDownloadRateLimit, which differ
\* in their map and their two constants only: the map after the call and the
\* value returned
checkLimit(map, ip, t, window, max) ==
  LET m == Expire(map, t)
  IN IF ip \notin DOMAIN m \/ t > m[ip].resetTime
     THEN [map |-> [k \in DOMAIN m \cup {ip} |->
                      IF k = ip THEN [count |-> 1, resetTime |-> t + window]
                                ELSE m[k]],
           allowed |-> TRUE]
     ELSE IF m[ip].count >= max
          THEN [map |-> m, allowed |-> FALSE]
          ELSE [map |-> [m EXCEPT ![ip].count = @ + 1], allowed |-> TRUE]

checkRateLimit(map, ip, t) ==
  checkLimit(map, ip, t, RATE_LIMIT_WINDOW, RATE_LIMIT_MAX_REQUESTS)

checkDownloadRateLimit(map, ip, t) ==
  checkLimit(map, ip, t, DOWNLOAD_RATE_LIMIT_WINDOW,
             DOWNLOAD_RATE_LIMIT_MAX_REQUESTS)

LimitWindow(l) ==
  IF l = "info" THEN RATE_LIMIT_WINDOW ELSE DOWNLOAD_RATE_LIMIT_WINDOW

LimitMax(l) ==
  IF l = "info" THEN RATE_LIMIT_MAX_REQUESTS ELSE DOWNLOAD_RATE_LIMIT_MAX_REQUESTS

\* ---- history of the limiter calls of the observed client ----
\*   limiter   the limiter this behaviour calls
\*   advances  steps of the clock so far
\*   other     calls of the other client so far
\*   fresh     the window opened by a call that found no entry for the key: the
\*             time t0 of that call and, in order, the answers to the calls
\*             made at t with t - t0 < window (the first max + 1 of them)
\*   opened    the time t0 of the call that began the current window: the
\*             first call, and after it every call made more than a window's
\*             length after the t0 of its time
\*   granted   the calls allowed since (and including) the one made at opened
\*   last      the last call: its time, its answer, what opened and granted
\*             held before it, the entry it left and the entry it found (pre)
\*   span      a span of one window's length that starts at the time s of an
\*             allowed call, and the number c of allowed calls in it so far
\*   alone     the map a limiter would hold had it been called by the observed
\*             client only, at the same times; last.alone is its answer to the
\*             last call
NoFresh == [t0 |-> NoTime, flags |-> <<>>]
NoCall ==
  [at |-> NoTime, allowed |-> FALSE, t0 |-> NoTime, had |-> 0, entry |-> NoEntry,
   pre |-> NoEntry, alone |-> FALSE]
NoSpan == [s |-> NoTime, c |-> 0]

NoLimiterHist ==
  [limiter |-> "none", advances |-> 0, other |-> 0, fresh |-> NoFresh,
   opened |-> NoTime, granted |-> 0, last |-> NoCall, span |-> NoSpan,
   alone |-> EmptyMap]

\* ---- the request being served ----
\*   ep        the endpoint: "info" (video-info) or "download"
\*   pc        where its handler stands: at `await request.json()`, at
\*             `await execAsync(...)`, or returned
\*   body      what the client sent, once request.json() settled and until
\*             execAsync is called
\*   flaw      what is wrong with that body, see Flaw; "unread" before
\*   denied    the limiter returned false
\*   read      request.json() was awaited
\*   checked   the fields of the body reached the validation
\*   valid     every validation accepted
\*   spawned   execAsync was called
\*   timeout   the timeout option it was called with, in milliseconds: exec
\*             kills a child that runs longer
\*   exec      how the subprocess ended, NoExec before that
\*   fs        what the filesystem calls of the handler met, NoFs before that
\*   caught    the exceptions the handler caught, in order
\*   sent      the statuses of the responses returned, in order
NoBody == [json |-> "none"]
NoExec == [end |-> "none", marker |-> FALSE, stdout |-> "none"]
NoFs == [readdir |-> "none"]

NoRequest ==
  [ep |-> "none", pc |-> "idle", body |-> NoBody, flaw |-> "unread",
   denied |-> FALSE,
   read |-> FALSE, checked |-> FALSE, valid |-> FALSE, spawned |-> FALSE,
   timeout |-> 0,
   exec |-> NoExec, fs |-> NoFs, caught |-> <<>>, sent |-> <<>>]

\* ---- the file the download handler located ----
\*   exists    it is in the temporary directory
\*   size      fileStats.size
\*   streaming createReadStream(filePath) was handed to the response
\*   pending   the clean-up triggers registered and not yet fired
\*   fired     the triggers that fired, in order
\*   unlinks   unlinkSync calls that removed the file
\*   failed    unlinkSync calls that threw
\*   idle      unlinkSync calls made while the file was gone
\*   raised    exceptions that left a clean-up handler
\*   others    the other files the subprocess of the request wrote into the
\*             temporary directory and that are still there: a partial file of
\*             a run that was cut short, the second of two streams the tool
\*             did not merge
NoFile ==
  [exists |-> FALSE, size |-> 0, streaming |-> FALSE, pending |-> {},
   fired |-> <<>>, unlinks |-> 0, failed |-> 0, idle |-> 0, raised |-> 0,
   others |-> 0]

\* ---- the handlers that run concurrently ----
\*   limiter   the route they belong to
\*   pc        where each stands: "none" for a handler that is not running,
\*             "json" at `await request.json()`, "exec" at `await execAsync()`
\*   ip        the x-forwarded-for value of its request
\*   granted   per key, the calls of the limiter that returned true
\*   refused   per key, whether a call returned false
\*   other     handlers run for the client that is not observed
NoHandler == [pc |-> "none", ip |-> Observed]

NoInflight ==
  [limiter |-> "none", slots |-> <<>>, granted |-> [k \in Keys |-> 0],
   refused |-> [k \in Keys |-> FALSE], other |-> 0]

\* ---- a call of a function followed on its own ----
\*   called   the function was called with arg
\*   ret      what it returned
NoCallYet == [called |-> FALSE, arg |-> <<>>, ret |-> <<>>]

\* ---- the response the load handler of downloadVideo received ----
\*   on           a 200 response was loaded
\*   id           the item the request belonged to
\*   file         the name of the streamed file, split at the dots
\*   size         its Content-Length
\*   contentType  its Content-Type
NoServed == [on |-> FALSE, id |-> 0, file |-> <<>>, size |-> 0, contentType |-> <<>>]

\* nothing served, no subprocess, an empty temporary directory, no handler
XInit ==
  /\ served = NoServed
  /\ procs = {}
  /\ tempDir = {}
  /\ posts = <<>>

ServerInit ==
  /\ now = 0
  /\ rateLimitMap = EmptyMap
  /\ downloadRateLimitMap = EmptyMap
  /\ lhist = NoLimiterHist
  /\ req = NoRequest
  /\ file = NoFile
  /\ inflight = NoInflight
  /\ formatsCall = NoCallYet
  /\ urlCall = NoCallYet
  /\ XInit

ClientInit ==
  /\ downloads = <<>>
  /\ activeDownloads = 0
  /\ downloadQueueRef = <<>>
  /\ updates = <<>>
  /\ effect = NoEffect
  /\ timers = <<>>
  /\ xhrs = {}
  /\ aborted = {}
  /\ nextId = 0
  /\ retries = 0
  /\ failures = 0
  /\ progressEvents = 0
  /\ sameMs = 0
  /\ qTick = <<>>
  /\ hist = NoHist

\* the page and a server process that has served nothing yet
Init == ClientInit /\ ServerInit

\* ---- handleDownload: the click on a format ----
handleDownload ==
  /\ nextId < MaxItems
  /\ Inputs < MaxInputs
  /\ LET id == nextId + 1
         ctrl == nextCtrl + 1
         S == [q |-> Append(downloadQueueRef, id),
               qt |-> Append(qTick, nextTick + 1),
               ups |-> Append(updates, UAdd(id, ctrl))]
     IN ClickFlush(RenderInput(StepHist), S)
  /\ nextId' = nextId + 1
  /\ UNCHANGED svars /\ UNCHANGED <<aborted, retries, failures, progressEvents, sameMs>>

\* ---- handleCancelDownload, the item is shown as queued ----
handleCancelQueued ==
  \E i \in 1..Len(downloads) :
    LET d == Find(downloads, downloads[i].id)
        keep == {j \in 1..Len(downloadQueueRef) : downloadQueueRef[j] # d.id}
        S == [q |-> SelectIdx(downloadQueueRef, keep, 1),
              qt |-> SelectIdx(qTick, keep, 1),
              ups |-> Append(updates, UStatus(d.id, "cancelled"))]
        h == [StepHist EXCEPT !.cancelledQ = @ \cup {d.id}]
    IN /\ CancelShown(downloads[i])
       /\ d.status = "queued"
       /\ ClickFlush(RenderInput(h), S)
       /\ UNCHANGED svars /\ UNCHANGED <<aborted, nextId, retries, failures, progressEvents, sameMs>>

\* ---- handleCancelDownload, else branch: abortController.abort() ----
\* downloadVideo: the signal's listener aborts the request, the abort event
\* rejects with AbortError, startDownload stores cancelled and decrements
\* a catch block that does not look for AbortError
RECURSIVE AbortUpdatesAsError(_)
AbortUpdatesAsError(hit) ==
  IF hit = {} THEN <<>>
  ELSE LET x == CHOOSE y \in hit : TRUE
       IN <<UError(x.id, "Download failed. Let's try that again."), UActive(-1)>>
            \o AbortUpdatesAsError(hit \ {x})

RECURSIVE AbortUpdates(_)
AbortUpdates(hit) ==
  IF hit = {} THEN <<>>
  ELSE LET x == CHOOSE y \in hit : TRUE
       IN <<UStatus(x.id, "cancelled"), UActive(-1)>> \o AbortUpdates(hit \ {x})

handleCancelActive ==
  \E i \in 1..Len(downloads) :
    LET d == Find(downloads, downloads[i].id)
        hit == IF d.ctrl \in aborted THEN {} ELSE {x \in xhrs : x.ctrl = d.ctrl}
        h == [StepHist EXCEPT !.clickedActive = @ \cup {d.id},
                              !.abortedIds = @ \cup {x.id : x \in hit}]
    IN /\ CancelShown(downloads[i])
       /\ d.status # "queued"
       /\ aborted' = aborted \cup {d.ctrl}
       /\ IF hit = {}
          THEN /\ hist' = h
               /\ UNCHANGED <<downloads, activeDownloads, downloadQueueRef,
                              updates, effect, timers, xhrs, qTick>>
          ELSE ClickFlush([RenderInput(h) EXCEPT !.xhrs = @ \ hit],
                          [QueueInput EXCEPT !.ups = @ \o AbortUpdates(hit)])
       /\ UNCHANGED svars /\ UNCHANGED <<nextId, retries, failures, progressEvents, sameMs>>

\* a retry that puts the identifier at the head
requeueFirst(q, x) == <<x>> \o q

\* downloadQueueRef.current.push(downloadId), of handleRetryDownload
requeue(q, x) == Append(q, x)

\* ---- handleRetryDownload: the click on Retry ----
handleRetryDownload ==
  \E i \in 1..Len(downloads) :
    LET id == downloads[i].id
        ctrl == nextCtrl + 1
        S == [q |-> requeue(downloadQueueRef, id),
              qt |-> requeue(qTick, nextTick + 1),
              ups |-> Append(updates, URetry(id, ctrl))]
        h == [StepHist EXCEPT
                !.retry = [NoRetry EXCEPT !.id = id, !.qpre = downloadQueueRef,
                                          !.qpost = S.q],
                !.cancelledQ = @ \ {id},
                !.failed = {f \in @ : f[1] # id},
                !.abortedIds = @ \ {id},
                !.clickedActive = @ \ {id},
                !.reissued = IF downloads[i].ctrl \in aborted
                             THEN @ \cup {id} ELSE @]
    IN /\ RetryShown(downloads[i])
       /\ retries < MaxRetries
       /\ Inputs < MaxInputs
       /\ HasItem(downloads, id)
       /\ ClickFlush(RenderInput(h), S)
       /\ retries' = retries + 1
       /\ UNCHANGED svars /\ UNCHANGED <<aborted, nextId, failures, progressEvents, sameMs>>

\* ---- handleClearCompleted: the click on Clear ----
handleClearCompleted ==
  /\ ClearShown(downloads)
  /\ LET S == [QueueInput EXCEPT !.ups = Append(@, UClear)]
         h == [StepHist EXCEPT !.queueKept = @ /\ S.q = downloadQueueRef]
     IN ClickFlush(RenderInput(h), S)
  /\ UNCHANGED svars /\ UNCHANGED <<aborted, nextId, retries, failures, progressEvents, sameMs>>

\* ---- a render scheduled by updates from an effect, a timer or a request ----
Render ==
  /\ ~effect.on
  /\ updates # <<>>
  /\ \E R \in {RenderAll(RenderInput(StepHist), updates)} :
       Commit(R, [QueueInput EXCEPT !.ups = <<>>],
              IF DepsChanged(R) THEN [on |-> TRUE, active |-> R.act] ELSE NoEffect)
  /\ UNCHANGED svars /\ UNCHANGED <<aborted, nextId, retries, failures, progressEvents, sameMs>>

\* ---- the effect of a commit: processQueue() ----
RunEffect ==
  /\ effect.on
  /\ LET S == processQueue(effect.active, QueueInput)
     IN /\ downloadQueueRef' = S.q
        /\ qTick' = S.qt
        /\ updates' = S.ups
  /\ effect' = NoEffect
  /\ hist' = StepHist
  /\ UNCHANGED svars /\ UNCHANGED <<downloads, activeDownloads, timers, xhrs, aborted, nextId,
                 retries, failures, progressEvents, sameMs>>

\* ---- setTimeout(() => processQueue(), 0): the closure that skipped ----
\* No behaviour of Spec reaches the two branches of the updater that set this
\* timer (NoDeferredCall below), so Next does not list the action; SameMsNext
\* does.
RunTimer ==
  /\ timers # <<>>
  /\ LET S == processQueue(Head(timers), QueueInput)
     IN /\ downloadQueueRef' = S.q
        /\ qTick' = S.qt
        /\ updates' = S.ups
        /\ hist' = [StepHist EXCEPT
                      !.deferred = [on |-> TRUE, active |-> Head(timers),
                                    qpre |-> downloadQueueRef],
                      !.viaTimer = IF S.q = downloadQueueRef THEN @
                                   ELSE @ \cup {Head(qTick)}]
  /\ timers' = Tail(timers)
  /\ UNCHANGED svars /\ UNCHANGED <<downloads, activeDownloads, effect, xhrs, aborted, nextId,
                 retries, failures, progressEvents, sameMs>>

\* ---- downloadVideo: the progress event ----
\* Math.round(loaded / total * 100) when the length is known, else 0
XhrProgress ==
  \E x \in xhrs : \E p \in ProgressValues :
    /\ progressEvents < MaxProgressEvents
    /\ Inputs < MaxInputs
    /\ progressEvents' = progressEvents + 1
    /\ updates' = Append(updates, UProgress(x.id, p))
    /\ hist' = StepHist
    /\ UNCHANGED svars /\ UNCHANGED <<downloads, activeDownloads, downloadQueueRef, effect, timers,
                   xhrs, aborted, nextId, retries, failures, sameMs, qTick>>

\* a startDownload that decrements in the catch block and in finally
SettleUpdatesTwice(id, o) ==
  IF o = "ok"
  THEN <<UStatus(id, "completed"), UActive(-1)>>
  ELSE <<UError(id, ErrorMessage(o)), UActive(-1), UActive(-1)>>

\* a startDownload whose failure path does not decrement
SettleUpdatesKeepsSlot(id, o) ==
  IF o = "ok"
  THEN <<UStatus(id, "completed"), UActive(-1)>>
  ELSE <<UError(id, ErrorMessage(o))>>

\* ---- downloadVideo: the load and error events; startDownload after the await ----
SettleUpdates(id, o) ==
  IF o = "ok"
  THEN <<UStatus(id, "completed"), UActive(-1)>>
  ELSE <<UError(id, ErrorMessage(o)), UActive(-1)>>

\* request x ends with outcome o
Settle(x, o) ==
  /\ o # "ok" => failures < MaxFailures /\ Inputs < MaxInputs
  /\ failures' = IF o = "ok" THEN failures ELSE failures + 1
  /\ xhrs' = xhrs \ {x}
  /\ updates' = updates \o SettleUpdates(x.id, o)
  /\ hist' = [StepHist EXCEPT
                !.failed = IF o = "ok" THEN @ ELSE @ \cup {<<x.id, o>>}]
  /\ UNCHANGED svars /\ UNCHANGED <<downloads, activeDownloads, downloadQueueRef, effect, timers,
                 aborted, nextId, retries, progressEvents, sameMs, qTick>>

XhrSettle ==
  \E x \in xhrs : \E o \in Outcomes : Settle(x, o)

Next ==
  \/ handleDownload
  \/ handleCancelQueued
  \/ handleCancelActive
  \/ handleRetryDownload
  \/ handleClearCompleted
  \/ Render
  \/ RunEffect
  \/ XhrProgress
  \/ XhrSettle

Spec == Init /\ [][Next]_vars

\* ---- shape of the state ----
TypeOK ==
  /\ activeDownloads \in Int
  /\ \A i \in 1..Len(downloads) : downloads[i].status \in Statuses
  /\ Len(qTick) = Len(downloadQueueRef)
  /\ \A i, j \in 1..Len(downloads) : downloads[i].id = downloads[j].id => i = j

\* the updater of processQueue always finds its item queued
NoDeferredCall == timers = <<>>

\* ---- what the claims speak about ----
Active(d) == d.status \in {"preparing", "downloading"}
ActiveItems == {i \in 1..Len(downloads) : Active(downloads[i])}
Pending(id) == \E k \in 1..Len(updates) : updates[k].id = id
Admitted(id) == \E k \in 1..Len(hist.admitLog) : hist.admitLog[k].id = id
\* the counter, once the dispatched updates are applied
RECURSIVE SumActive(_)
SumActive(us) ==
  IF us = <<>> THEN 0
  ELSE (IF Head(us).t = "active" THEN Head(us).n ELSE 0) + SumActive(Tail(us))
SlotCount == activeDownloads + SumActive(updates)

C5_CancelledQueuedStaysOut ==
  \A id \in hist.cancelledQ :
    /\ id \notin Range(downloadQueueRef)
    /\ id \notin hist.sent
    /\ HasItem(downloads, id) /\ Find(downloads, id).status = "cancelled"

\* C6: retry sets the item to queued, clears error and progress, appends the
\* identifier behind the pending ones, and leaves every other item as it was.
RetryResets(pre, post, id) ==
  /\ Len(post) = Len(pre)
  /\ \A i \in 1..Len(pre) :
       IF pre[i].id = id
       THEN /\ post[i].status = "queued"
            /\ post[i].error = NoError
            /\ post[i].progress = NoProgress
       ELSE /\ post[i].status = pre[i].status
            /\ post[i].error = pre[i].error
            /\ post[i].progress = pre[i].progress

C7_CancelledCanRetry ==
  \A i \in 1..Len(downloads) :
    downloads[i].status = "cancelled" => RetryShown(downloads[i])

\* C8: every status change is one of the listed ones.
AllowedChanges ==
  {<<"queued", "preparing">>, <<"preparing", "downloading">>,
   <<"downloading", "completed">>,
   <<"queued", "cancelled">>, <<"preparing", "cancelled">>,
   <<"downloading", "cancelled">>,
   <<"preparing", "error">>, <<"downloading", "error">>,
   <<"error", "queued">>, <<"cancelled", "queued">>}

C8_OnlyListedChanges == hist.trans \subseteq AllowedChanges

C10_FailureBecomesError ==
  /\ \A f \in hist.failed :
       ~Pending(f[1]) =>
         /\ HasItem(downloads, f[1])
         /\ Find(downloads, f[1]).status = "error"
         /\ Find(downloads, f[1]).error = ErrorMessage(f[2])
         /\ Find(downloads, f[1]).error # NoError
         /\ RetryShown(Find(downloads, f[1]))
  /\ \A o, q \in {"s429", "s413", "s408", "s500"} :
       o # q => ErrorMessage(o) # ErrorMessage(q)
  /\ SlotCount = Cardinality(xhrs)
  /\ updates = <<>> => activeDownloads = Cardinality(xhrs)

\* a throttled transfer is shown as failed and the next item was admitted
C10_Witness ==
  \E f \in hist.failed :
    /\ hist.cancelledQ = {}
    /\ f[2] = "s429"
    /\ HasItem(downloads, f[1])
    /\ Find(downloads, f[1]).status = "error"
    /\ \E k \in 1..Len(hist.admitLog) :
         hist.admitLog[k].id # f[1] /\ f[1] \in hist.admitLog[k].settled

\* ---- the queue under a scheduler that keeps running ----
\* React renders the updates that are pending, runs the effect of a commit,
\* and a request that was sent ends with one of its events.  The user may
\* stop clicking at any time.
MaxLiveInputs == 3

\* Next, with at most MaxLiveInputs creations, retries, failures and
\* progress events
LiveNext ==
  \/ handleDownload /\ Inputs' <= MaxLiveInputs
  \/ handleCancelQueued
  \/ handleCancelActive
  \/ handleRetryDownload /\ Inputs' <= MaxLiveInputs
  \/ handleClearCompleted
  \/ Render
  \/ RunEffect
  \/ XhrProgress /\ Inputs' <= MaxLiveInputs
  \/ XhrSettle /\ Inputs' <= MaxLiveInputs

Fairness == WF_vars(Render) /\ WF_vars(RunEffect) /\ WF_vars(XhrSettle)

LiveSpec == Init /\ [][LiveNext]_vars /\ Fairness

Tickets == 1..MaxLiveInputs
TickAdmitted(t) == \E k \in 1..Len(hist.admitLog) : hist.admitLog[k].tick = t
TickDispatched(t) ==
  \E k \in 1..Len(updates) : updates[k].t = "admit" /\ updates[k].k = t
\* the entry left the queue by a cancel
TickCancelled(t) ==
  /\ t \notin Range(qTick)
  /\ ~TickDispatched(t)
  /\ ~TickAdmitted(t)

\* the last step stored completed, error or cancelled on the active item
JustFreed ==
  \E c \in hist.trans : c[1] \in {"preparing", "downloading"} /\ c[2] \in Terminal

\* no item is preparing or downloading and the entry is the head of the
\* queue, the slot having just been freed or an item just been created; or
\* the entry has been taken from the head and its admission is dispatched
HeadDue(t) ==
  \/ /\ ActiveItems = {}
     /\ qTick # <<>> /\ qTick[1] = t
     /\ JustFreed \/ hist.added # {}
  \/ TickDispatched(t)

\* C4: when no item is preparing or downloading and a queued item is at the
\* head of the queue, because the active transfer just settled or an item
\* was just created, that entry enters preparing unless it is cancelled
\* first; and again and again every item created so far has entered
\* preparing or has been cancelled while queued.
C4_QueueAdvances ==
  /\ \A t \in Tickets : HeadDue(t) ~> (TickAdmitted(t) \/ TickCancelled(t))
  /\ []<>(\A id \in 1..nextId : Admitted(id) \/ id \in hist.cancelledQ)

\* the slot was freed by a failed transfer and the item behind it got in
C4_Witness ==
  /\ hist.cancelledQ = {}
  /\ Len(hist.admitLog) >= 2
  /\ hist.failed # {}
  /\ \E f \in hist.failed : hist.admitLog[1].id = f[1]
  /\ hist.admitLog[2].id # hist.admitLog[1].id

\* ================= the rate limiters =================
\* LimiterSpec: the calls of one of the two limiters by two clients, and the
\* clock.  The two limiters keep separate maps and never read each other's, so
\* a behaviour follows one of them.

\* what a call of the observed client adds to the history; `before` is the map
\* the call found, r what checkLimit returned, start whether the span begins here
Observe(h, t, before, r, window, max, start) ==
  LET post == Get(r.map, Observed)
      reopen == h.opened = NoTime \/ t - h.opened > window
      one == IF r.allowed THEN 1 ELSE 0
  IN [h EXCEPT
        !.fresh = IF Observed \notin DOMAIN before
                  THEN [t0 |-> t, flags |-> <<r.allowed>>]
                  ELSE IF /\ @.t0 # NoTime
                          /\ t - @.t0 < window
                          /\ Len(@.flags) < max + 1
                       THEN [@ EXCEPT !.flags = Append(@, r.allowed)]
                       ELSE @,
        !.opened = IF reopen THEN t ELSE @,
        !.granted = IF reopen THEN one ELSE @ + one,
        !.last = [at |-> t, allowed |-> r.allowed, t0 |-> h.opened,
                  had |-> h.granted, entry |-> post,
                  pre |-> Get(before, Observed),
                  alone |-> checkLimit(h.alone, Observed, t, window, max).allowed],
        !.alone = checkLimit(h.alone, Observed, t, window, max).map,
        !.span = IF ~r.allowed THEN @
                 ELSE IF @.s = NoTime
                      THEN IF start THEN [s |-> t, c |-> 1] ELSE @
                      ELSE IF t - @.s < window
                           THEN [@ EXCEPT !.c = @ + 1]
                           ELSE @]

\* a call of the other client
Other(h) == [h EXCEPT !.other = @ + 1]

\* a span starts at the first call the observed client makes at some time
CallInputs ==
  {c \in [ip : Keys, start : BOOLEAN] :
     /\ c.ip # Observed => lhist.other < MaxOtherCalls /\ ~c.start
     /\ c.start => lhist.last.at # now /\ lhist.span.s = NoTime}

\* ---- Date.now() grows ----
\* the windows of the history that are over are forgotten
ClockAdvance ==
  \E d \in Deltas :
    /\ lhist.advances < MaxAdvances
    /\ now' = now + d
    /\ lhist' = [lhist EXCEPT
                   !.advances = @ + 1,
                   !.last = NoCall,
                   !.fresh = IF @.t0 # NoTime
                                /\ now' - @.t0 >= LimitWindow(lhist.limiter)
                             THEN NoFresh ELSE @,
                   !.span = IF @.s # NoTime
                               /\ now' - @.s >= LimitWindow(lhist.limiter)
                            THEN NoSpan ELSE @]
    /\ UNCHANGED <<rateLimitMap, downloadRateLimitMap>>
    /\ UNCHANGED rvars
    /\ UNCHANGED <<cvars, ovars>>

\* ---- checkRateLimit(clientIP) of the metadata endpoint ----
CallCheckRateLimit ==
  \E c \in CallInputs :
    /\ lhist.limiter = "info"
    /\ LET r == checkRateLimit(rateLimitMap, c.ip, now)
       IN /\ rateLimitMap' = r.map
          /\ lhist' = IF c.ip = Observed
                      THEN Observe(lhist, now, rateLimitMap, r, RATE_LIMIT_WINDOW,
                                   RATE_LIMIT_MAX_REQUESTS, c.start)
                      ELSE Other(lhist)
    /\ UNCHANGED <<now, downloadRateLimitMap>>
    /\ UNCHANGED rvars
    /\ UNCHANGED <<cvars, ovars>>

\* ---- checkDownloadRateLimit(clientIP) of the download endpoint ----
CallCheckDownloadRateLimit ==
  \E c \in CallInputs :
    /\ lhist.limiter = "download"
    /\ LET r == checkDownloadRateLimit(downloadRateLimitMap, c.ip, now)
       IN /\ downloadRateLimitMap' = r.map
          /\ lhist' = IF c.ip = Observed
                      THEN Observe(lhist, now, downloadRateLimitMap, r,
                                   DOWNLOAD_RATE_LIMIT_WINDOW,
                                   DOWNLOAD_RATE_LIMIT_MAX_REQUESTS, c.start)
                      ELSE Other(lhist)
    /\ UNCHANGED <<now, rateLimitMap>>
    /\ UNCHANGED rvars
    /\ UNCHANGED <<cvars, ovars>>

LimiterInit ==
  /\ ClientInit
  /\ now = 0
  /\ rateLimitMap = EmptyMap
  /\ downloadRateLimitMap = EmptyMap
  /\ \E l \in Limiters : lhist = [NoLimiterHist EXCEPT !.limiter = l]
  /\ req = NoRequest
  /\ file = NoFile
  /\ inflight = NoInflight
  /\ formatsCall = NoCallYet
  /\ urlCall = NoCallYet
  /\ XInit

LimiterNext ==
  \/ ClockAdvance
  \/ CallCheckRateLimit
  \/ CallCheckDownloadRateLimit

LimiterSpec == LimiterInit /\ [][LimiterNext]_vars

\* the map the behaviour's limiter keeps
TheMap == IF lhist.limiter = "info" THEN rateLimitMap ELSE downloadRateLimitMap

LimiterTypeOK ==
  /\ now \in Nat
  /\ \A k \in DOMAIN TheMap :
       /\ TheMap[k].count \in 1..LimitMax(lhist.limiter)
       /\ TheMap[k].resetTime \in Nat

\* C11: for a key that has no entry, the first max calls made before a window
\* has elapsed since the first one are allowed and the next one is denied,
\* with max = 30 for checkRateLimit and max = 10 for checkDownloadRateLimit.
C11_FirstMaxAllowed ==
  \A i \in 1..Len(lhist.fresh.flags) :
    lhist.fresh.flags[i] = (i <= LimitMax(lhist.limiter))

\* the observed client of the metadata endpoint has made 31 calls within the
\* window its first call opened, some of them after the clock moved
C11_Witness ==
  /\ lhist.limiter = "info"
  /\ Len(lhist.fresh.flags) = RATE_LIMIT_MAX_REQUESTS + 1
  /\ lhist.fresh.flags[RATE_LIMIT_MAX_REQUESTS + 1] = FALSE
  /\ now > lhist.fresh.t0


\* C12 as stated: a call made at t by a key whose window began at t0 is
\* allowed whenever t - t0 >= window, the boundary t = t0 + window included,
\* and leaves the entry with count 1 and reset time t + window.
C12_ElapsedWindowResets ==
  LET c == lhist.last
      w == LimitWindow(lhist.limiter)
  IN (c.at # NoTime /\ c.t0 # NoTime /\ c.at - c.t0 >= w)
       => /\ c.allowed
          /\ c.entry = [count |-> 1, resetTime |-> c.at + w]

\* C12 amended: a call made at t by a key whose window began at t0 is allowed
\* whenever t - t0 > window, even if the key had reached the maximum, and
\* leaves the entry with count 1 and reset time t + window; a call made at
\* exactly t0 + window is still counted in the window that began at t0.
C12_ExpiredWindowResets ==
  LET c == lhist.last
      w == LimitWindow(lhist.limiter)
  IN /\ (c.at # NoTime /\ c.t0 # NoTime /\ c.at - c.t0 > w)
          => /\ c.allowed
             /\ c.entry = [count |-> 1, resetTime |-> c.at + w]
     /\ (c.at # NoTime /\ c.t0 # NoTime /\ c.at - c.t0 = w)
          => /\ c.allowed = (c.had < LimitMax(lhist.limiter))
             /\ c.entry.resetTime = c.t0 + w

\* a key that had used up its window calls again a millisecond after the
\* window's reset time and is allowed
C12_Witness ==
  LET c == lhist.last
  IN /\ c.t0 # NoTime
     /\ c.at - c.t0 = LimitWindow(lhist.limiter) + 1
     /\ c.had = LimitMax(lhist.limiter)
     /\ c.allowed

\* C13 as stated: in any span of one minute a client is allowed at most max
\* calls (30 metadata lookups, 10 downloads), however the calls are spaced.
C13_AtMostMaxPerSpan == lhist.span.c <= LimitMax(lhist.limiter)

\* C13 amended: a client is allowed at most max calls in one window of the
\* limiter, which begins with the call that sets the entry and lasts through
\* its reset time, and at most 2 * max - 1 calls in any span of one minute.
C13_AtMostMaxPerWindow ==
  /\ lhist.granted <= LimitMax(lhist.limiter)
  /\ lhist.span.c <= 2 * LimitMax(lhist.limiter) - 1

\* a span of one minute in which the client was allowed 2 * max - 1 calls
C13_Witness ==
  /\ lhist.span.c = 2 * LimitMax(lhist.limiter) - 1
  /\ lhist.granted = LimitMax(lhist.limiter)


\* ================= the two route handlers =================
\* ServerSpec: the requests of one client to POST /api/video-info or to the
\* download route, one request at a time, all within one limiter window.  The
\* two routes are separate modules that share no state, so a behaviour follows
\* the requests to one of them.  A handler is cut at its awaits:
\* POST up to `await request.json()`, then up to `await execAsync(...)`, then
\* to its return; the listeners and the timer it registered run later.

\* ---- bounds ----
\* characters of an enumerated format identifier
MaxIdLen == 2

\* ---- program constants ----
URL_MAX_LENGTH == 2000
FORMAT_ID_MAX_LENGTH == 20
maxFileSize == 2000 * 1024 * 1024

\* ---- values of a field of the JSON body ----
Undefined == [type |-> "undefined", value |-> <<>>]
NotAString == [type |-> "number", value |-> <<>>]
Str(v) == [type |-> "string", value |-> v]

\* ---- URL strings ----
\* "https://" hostname pathname, then a query of `query` characters; `padded`
\* says the string has white space around it.  kind "garbage" is a string
\* new URL() rejects, kind "empty" the empty string.
NoUrlText == [hostname |-> "", pathname |-> <<>>, query |-> 0, padded |-> FALSE]
EmptyText == [kind |-> "empty"] @@ NoUrlText
Garbage == [kind |-> "garbage"] @@ NoUrlText

validHosts == {"www.youtube.com", "youtube.com", "youtu.be", "m.youtube.com"}

Hostnames == {"www.youtube.com", "youtu.be", "example.com"}

HostLength(h) ==
  CASE h = "www.youtube.com" -> 15
    [] h = "youtu.be" -> 8
    [] h = "example.com" -> 11
    [] OTHER -> 0

Slash == <<"/">>
WatchPath == <<"/", "w", "a", "t", "c", "h">>
ShortsPath == <<"/", "s", "h", "o", "r", "t", "s", "/">>
Pathnames == {Slash, WatchPath, ShortsPath \o <<"a">>, <<"/", "a">>}

Queries == {0, 3000}

Urls ==
  {[kind |-> "url", hostname |-> h, pathname |-> pn, query |-> q, padded |-> pd] :
     h \in Hostnames, pn \in Pathnames, q \in Queries, pd \in BOOLEAN}

\* String.prototype.includes
Includes(str, sub) ==
  \E i \in 0..(Len(str) - Len(sub)) : \A j \in 1..Len(sub) : str[i + j] = sub[j]

Min(a, b) == IF a < b THEN a ELSE b

\* input.trim().substring(0, 2000): the white space goes and the query is
\* cut to what is left of the 2000 characters
sanitizeInput(u) ==
  IF u.kind # "url" THEN u
  ELSE [u EXCEPT
          !.padded = FALSE,
          !.query = Min(@, URL_MAX_LENGTH - 8 - HostLength(u.hostname)
                             - Len(u.pathname))]

\* a validation that takes any path but the root on every listed host
validateYouTubeUrlAnyPath(u) ==
  IF u.kind # "url" THEN FALSE
  ELSE IF u.hostname \notin validHosts THEN FALSE
  ELSE Len(u.pathname) > 1

\* new URL(url) strips the white space around the string and throws for a
\* string that is no URL
validateYouTubeUrl(u) ==
  IF u.kind # "url" THEN FALSE
  ELSE IF u.hostname \notin validHosts THEN FALSE
  ELSE IF u.hostname = "youtu.be" THEN Len(u.pathname) > 1
  ELSE Includes(u.pathname, WatchPath) \/ Includes(u.pathname, ShortsPath)

\* ---- format identifiers: strings over a small alphabet ----
WordChars == {"a", "Z", "7", "_", "-"}
FormatChars == {"a", "7", "_", "-", ";"}

Fill(n) == [i \in 1..n |-> "a"]

FormatIds ==
  UNION {[1..n -> FormatChars] : n \in 0..MaxIdLen}
    \cup {Fill(FORMAT_ID_MAX_LENGTH), Fill(FORMAT_ID_MAX_LENGTH + 1)}

\* a validateFormatId without the length test
validateFormatIdAnyLength(formatId) ==
  Len(formatId) >= 1 /\ \A i \in 1..Len(formatId) : formatId[i] \in WordChars

\* /^[a-zA-Z0-9_-]+$/.test(formatId) && formatId.length <= 20
validateFormatId(formatId) ==
  /\ Len(formatId) >= 1 /\ \A i \in 1..Len(formatId) : formatId[i] \in WordChars
  /\ Len(formatId) <= FORMAT_ID_MAX_LENGTH

\* ---- request bodies ----
\* json "invalid": request.json() rejects; "null": it resolves to null; a
\* body that is a number, a string or an array has no url like an object
\* without one
InfoBodies ==
  {[json |-> j, url |-> Undefined, formatId |-> Undefined] : j \in {"invalid", "null"}}
    \cup {[json |-> "object", url |-> u, formatId |-> Undefined] :
            u \in {Undefined, NotAString, Str(EmptyText), Str(Garbage)}
                    \cup {Str(x) : x \in Urls}}

AWatchUrl ==
  [kind |-> "url", hostname |-> "www.youtube.com", pathname |-> WatchPath,
   query |-> 0, padded |-> FALSE]

DownloadBodies ==
  {[json |-> j, url |-> Undefined, formatId |-> Undefined] : j \in {"invalid", "null"}}
    \cup {[json |-> "object", url |-> u, formatId |-> f] :
            u \in {Undefined, NotAString, Str(EmptyText), Str(Garbage), Str(AWatchUrl)},
            f \in {Undefined, NotAString} \cup {Str(x) : x \in FormatIds}}

\* !x of a field: undefined and the empty string are falsy
Falsy(f) ==
  \/ f.type = "undefined"
  \/ f.type = "string" /\ (f.value = <<>> \/ f.value = EmptyText)

\* ---- what the claims call a request that fails input validation ----
\* the defect of a body that was read: "none" if there is none
Flaw(ep, body) ==
  IF body.json # "object" THEN "body"
  ELSE IF body.url.type # "string" \/ Falsy(body.url) THEN "url missing"
  ELSE IF ep = "info"
       THEN IF validateYouTubeUrl(sanitizeInput(body.url.value))
            THEN "none" ELSE "url rejected"
       ELSE IF body.formatId.type # "string" \/ Falsy(body.formatId)
            THEN "formatId missing"
            ELSE IF \/ \E i \in 1..Len(body.formatId.value) :
                          body.formatId.value[i] \notin WordChars
                    \/ Len(body.formatId.value) > 20
                 THEN "formatId rejected"
                 ELSE "none"

\* ---- how execAsync ends ----
\*   end     "exit0": the promise resolves; "exitN": the tool exits with a
\*           failure code; "timeout": exec kills it after the `timeout` option's
\*           milliseconds; "maxbuffer": its output exceeds maxBuffer
\*   marker  stderr includes "ERROR"
\*   stdout  "good": a JSON document with id and title; "nofields": one
\*           without them; "garbage": not JSON
ExecOutcomes ==
  [end : {"exit0", "exitN", "timeout", "maxbuffer"}, marker : BOOLEAN,
   stdout : {"good", "nofields", "garbage"}]

\* the code property of the error execAsync rejects with: the exit code of
\* the child, null for a child that exec killed with its killSignal, the
\* name of the Node.js error otherwise; a SyntaxError of JSON.parse has none
ErrorCode(o) ==
  CASE o.end = "exitN" -> "1"
    [] o.end = "timeout" -> "null"
    [] o.end = "maxbuffer" -> "ERR_CHILD_PROCESS_STDIO_MAXBUFFER"
    [] OTHER -> "undefined"

\* ---- what the filesystem calls of the download handler meet ----
Sizes == {maxFileSize - 1, maxFileSize, maxFileSize + 1}

NoSize == 0

FsOutcomes ==
  {[readdir |-> "throws", matches |-> FALSE, exists |-> FALSE, stat |-> "none",
    size |-> NoSize, unlink |-> "none"],
   [readdir |-> "ok", matches |-> FALSE, exists |-> FALSE, stat |-> "none",
    size |-> NoSize, unlink |-> "none"],
   [readdir |-> "ok", matches |-> TRUE, exists |-> FALSE, stat |-> "none",
    size |-> NoSize, unlink |-> "none"],
   [readdir |-> "ok", matches |-> TRUE, exists |-> TRUE, stat |-> "throws",
    size |-> NoSize, unlink |-> "none"]}
    \cup {[readdir |-> "ok", matches |-> TRUE, exists |-> TRUE, stat |-> "ok",
           size |-> sz, unlink |-> "none"] : sz \in {x \in Sizes : x <= maxFileSize}}
    \cup {[readdir |-> "ok", matches |-> TRUE, exists |-> TRUE, stat |-> "ok",
           size |-> sz, unlink |-> u] :
            sz \in {x \in Sizes : x > maxFileSize}, u \in {"ok", "throws"}}

Triggers == {"end", "error", "timer"}

\* ---- responses ----
\* return NextResponse.json(..., {status})
Respond(r, status) == [r EXCEPT !.pc = "done", !.sent = Append(@, status)]

\* a handler that answers a denied request like a failure
RateLimitedAsError(r) == Respond([r EXCEPT !.denied = TRUE], 500)

\* if (!checkRateLimit(clientIP)) return 429
RateLimited(r) == Respond([r EXCEPT !.denied = TRUE], 429)

\* a handler without the outer try: the exception leaves POST
OuterCatchRethrows(r) == [r EXCEPT !.pc = "done", !.caught = Append(@, "outer")]

\* catch (error) { return 500 } around the whole handler
OuterCatch(r) == Respond([r EXCEPT !.caught = Append(@, "outer")], 500)

\* catch (execError) { code === "TIMEOUT" ? 408 : 500 }
ExecCatch(r, code) ==
  Respond([r EXCEPT !.caught = Append(@, "exec")],
          IF code = "TIMEOUT" THEN 408 ELSE 500)

\* timeout: 30000 of the metadata route
InfoTimeout == 30000

\* process.env.VERCEL ? 250000 : 300000
DownloadTimeout(vercel) == IF vercel THEN 250000 ELSE 300000

\* the call of execAsync: the body is not needed any more
Spawn(r, timeout) ==
  [r EXCEPT !.pc = "exec", !.valid = TRUE, !.spawned = TRUE, !.body = NoBody,
            !.timeout = timeout]

\* ---- POST /api/video-info after request.json() ----
InfoAfterJson(r, body) ==
  IF body.json = "invalid"
  THEN Respond([r EXCEPT !.read = TRUE, !.body = body, !.flaw = "body",
                         !.caught = Append(@, "json")], 400)
  ELSE IF body.json = "null"
  THEN OuterCatch([r EXCEPT !.read = TRUE, !.body = body, !.flaw = "body"])
  ELSE LET q == [r EXCEPT !.read = TRUE, !.body = body, !.checked = TRUE,
                          !.flaw = Flaw("info", body)]
           url == body.url
       IN IF Falsy(url) \/ url.type # "string"
          THEN Respond(q, 400)
          ELSE IF ~validateYouTubeUrl(sanitizeInput(url.value))
               THEN Respond(q, 400)
               ELSE Spawn(q, InfoTimeout)

\* ---- POST /api/video-info after execAsync ----
InfoAfterExec(r, o) ==
  LET q == [r EXCEPT !.exec = o]
  IN IF o.end = "exit0"
     THEN IF o.marker THEN Respond(q, 404)
          ELSE IF o.stdout = "garbage" THEN ExecCatch(q, "undefined")
          ELSE IF o.stdout = "nofields" THEN Respond(q, 500)
          ELSE Respond(q, 200)
     ELSE ExecCatch(q, ErrorCode(o))

\* ---- POST of the download route after request.json() ----
\* vercel: process.env.VERCEL is set
DownloadAfterJson(r, body, vercel) ==
  IF body.json = "invalid"
  THEN Respond([r EXCEPT !.read = TRUE, !.body = body, !.flaw = "body",
                         !.caught = Append(@, "json")], 400)
  ELSE IF body.json = "null"
  THEN OuterCatch([r EXCEPT !.read = TRUE, !.body = body, !.flaw = "body"])
  ELSE LET q == [r EXCEPT !.read = TRUE, !.body = body, !.checked = TRUE,
                          !.flaw = Flaw("download", body)]
           url == body.url
           formatId == body.formatId
       IN IF Falsy(url) \/ url.type # "string"
          THEN Respond(q, 400)
          ELSE IF Falsy(formatId) \/ formatId.type # "string"
               THEN Respond(q, 400)
               ELSE IF ~validateFormatId(formatId.value)
                    THEN Respond(q, 400)
                    ELSE Spawn(q, DownloadTimeout(vercel))

\* a size test that rejects a file of exactly the cap
TooLargeAtCap(size) == size >= maxFileSize

\* fileStats.size > maxFileSize
TooLarge(size) == size > maxFileSize

\* ---- POST of the download route after execAsync ----
\* the request and the files it leaves: `extra` files of the subprocess are in
\* the temporary directory besides the one the handler locates, and no
\* statement of the handler touches them
DownloadAfterExec(r, o, fs, extra) ==
  LET q == [r EXCEPT !.exec = o]
      p == [q EXCEPT !.fs = fs]
      none == [NoFile EXCEPT !.others = extra]
      there == [none EXCEPT !.exists = TRUE, !.size = fs.size]
  IN IF o.end # "exit0" THEN [req |-> ExecCatch(q, ErrorCode(o)), file |-> none]
     ELSE IF o.marker THEN [req |-> Respond(q, 404), file |-> none]
     ELSE IF fs.readdir = "throws"
     THEN [req |-> ExecCatch(p, "ENOENT"), file |-> none]
     ELSE IF ~fs.matches THEN [req |-> Respond(p, 500), file |-> none]
     ELSE IF ~fs.exists THEN [req |-> Respond(p, 500), file |-> none]
     ELSE IF fs.stat = "throws"
     THEN [req |-> ExecCatch(p, "EACCES"),
           file |-> [none EXCEPT !.exists = TRUE]]
     ELSE IF TooLarge(fs.size)
     THEN IF fs.unlink = "throws"
          THEN [req |-> ExecCatch(p, "EPERM"),
                file |-> [there EXCEPT !.failed = @ + 1]]
          ELSE [req |-> Respond(p, 413),
                file |-> [there EXCEPT !.exists = FALSE, !.unlinks = @ + 1]]
     ELSE [req |-> Respond(p, 200),
           file |-> [there EXCEPT !.streaming = TRUE, !.pending = Triggers]]

\* clean-up handlers of the stream only: the timer's callback does nothing
CleanupStreamOnly(f, trigger, unlink) ==
  LET g == [f EXCEPT !.pending = @ \ {trigger}, !.fired = Append(@, trigger)]
  IN IF g.exists /\ trigger # "timer"
     THEN IF unlink = "ok"
          THEN [g EXCEPT !.exists = FALSE, !.unlinks = @ + 1]
          ELSE [g EXCEPT !.failed = @ + 1]
     ELSE g

\* a clean-up handler that unlinks without asking existsSync
CleanupUnchecked(f, trigger, unlink) ==
  LET g == [f EXCEPT !.pending = @ \ {trigger}, !.fired = Append(@, trigger)]
  IN IF g.exists
     THEN IF unlink = "ok"
          THEN [g EXCEPT !.exists = FALSE, !.unlinks = @ + 1]
          ELSE [g EXCEPT !.failed = @ + 1]
     ELSE [g EXCEPT !.idle = @ + 1]

\* try { if (existsSync(filePath)) unlinkSync(filePath) } catch { console.error }
Cleanup(f, trigger, unlink) ==
  LET g == [f EXCEPT !.pending = @ \ {trigger}, !.fired = Append(@, trigger)]
  IN IF g.exists
     THEN IF unlink = "ok"
          THEN [g EXCEPT !.exists = FALSE, !.unlinks = @ + 1]
          ELSE [g EXCEPT !.failed = @ + 1]
     ELSE g

\* a request that passed the limiter waits for its body
Arrival(ep) == [NoRequest EXCEPT !.ep = ep, !.pc = "json"]

\* ---- POST /api/video-info: up to `await request.json()` ----
PostVideoInfo ==
  /\ req.pc \in {"idle", "done"}
  /\ req.ep \in {"none", "info"}
  /\ LET r == checkRateLimit(rateLimitMap, Observed, now)
     IN /\ rateLimitMap' = r.map
        /\ req' = IF r.allowed THEN Arrival("info")
                  ELSE RateLimited(Arrival("info"))
  /\ file' = NoFile
  /\ UNCHANGED <<now, downloadRateLimitMap, lhist>>
  /\ UNCHANGED <<cvars, ovars>>

\* ---- POST of the download route: up to `await request.json()` ----
PostDownload ==
  /\ req.pc \in {"idle", "done"}
  /\ req.ep \in {"none", "download"}
  /\ LET r == checkDownloadRateLimit(downloadRateLimitMap, Observed, now)
     IN /\ downloadRateLimitMap' = r.map
        /\ req' = IF r.allowed THEN Arrival("download")
                  ELSE RateLimited(Arrival("download"))
  /\ file' = NoFile
  /\ UNCHANGED <<now, rateLimitMap, lhist>>
  /\ UNCHANGED <<cvars, ovars>>

\* ---- request.json() settles: validation, then the call of execAsync ----
\* the body the client sent becomes known here
RequestJson ==
  /\ req.pc = "json"
  /\ IF req.ep = "info"
     THEN \E body \in InfoBodies : req' = InfoAfterJson(req, body)
     ELSE \E body \in DownloadBodies, vercel \in BOOLEAN :
            req' = DownloadAfterJson(req, body, vercel)
  /\ UNCHANGED <<now, rateLimitMap, downloadRateLimitMap, lhist, file>>
  /\ UNCHANGED <<cvars, ovars>>

\* ---- execAsync settles: the rest of the handler ----
ExecReturns ==
  /\ req.pc = "exec"
  /\ \E o \in ExecOutcomes :
       IF req.ep = "info"
       THEN /\ req' = InfoAfterExec(req, o)
            /\ file' = file
       ELSE /\ o.stdout = "good"
            /\ \E fs \in FsOutcomes, extra \in 0..MaxExtraFiles :
                 \* a file of the subprocess includes the name searched for
                 /\ (fs.readdir = "ok" /\ ~fs.matches) => extra = 0
                 /\ \E R \in {DownloadAfterExec(req, o, fs, extra)} :
                      /\ req' = R.req
                      /\ file' = R.file
  /\ UNCHANGED <<now, rateLimitMap, downloadRateLimitMap, lhist>>
  /\ UNCHANGED <<cvars, ovars>>

\* a trigger fires; unlinkSync removes the file or throws
Fire(trigger) ==
  /\ req.pc = "done"
  /\ trigger \in file.pending
  /\ \E u \in {"ok", "throws"} : file' = Cleanup(file, trigger, u)
  /\ UNCHANGED <<now, rateLimitMap, downloadRateLimitMap, lhist, req>>
  /\ UNCHANGED <<cvars, ovars>>

\* ---- fileStream.on("end") ----
StreamEnd == Fire("end")

\* ---- fileStream.on("error") ----
StreamError == Fire("error")

\* ---- setTimeout(..., 300000) ----
FallbackTimer == Fire("timer")

ServerNext ==
  \/ PostVideoInfo
  \/ PostDownload
  \/ RequestJson
  \/ ExecReturns
  \/ StreamEnd
  \/ StreamError
  \/ FallbackTimer

\* request.json() settles when the body has arrived or the connection broke;
\* exec ends its child after `timeout` milliseconds at the latest
ServerFairness == WF_vars(RequestJson) /\ WF_vars(ExecReturns)

ServerSpec == Init /\ [][ServerNext]_vars /\ ServerFairness

ResponseStatuses == {200, 400, 404, 408, 413, 429, 500}

ServerTypeOK ==
  /\ req.pc \in {"idle", "json", "exec", "done"}
  /\ \A i \in 1..Len(req.sent) : req.sent[i] \in ResponseStatuses
  /\ file.pending \subseteq Triggers


\* C14: on both endpoints a request the limiter denies is answered 429, never
\* 400 or 500, and its handler neither reads or validates the body nor starts
\* the external tool; no other request is answered 429.
C14_DeniedIs429 ==
  /\ req.denied =>
       /\ req.sent = <<429>>
       /\ ~req.read /\ ~req.checked /\ req.flaw = "unread"
       /\ ~req.spawned /\ req.exec = NoExec
  /\ (req.sent # <<>> /\ req.sent[1] = 429) => req.denied

\* the eleventh download request of the minute
C14_Witness ==
  /\ req.ep = "download"
  /\ req.denied
  /\ req.sent = <<429>>
  /\ downloadRateLimitMap[Observed].count = DOWNLOAD_RATE_LIMIT_MAX_REQUESTS

C16_TimeoutIs408 ==
  (req.pc = "done" /\ req.exec.end = "timeout") => req.sent = <<408>>

\* C17: whenever the tool's diagnostic stream holds the error marker the
\* endpoint answers 404, whether the tool exited successfully or with a failure.
C17_MarkerIs404 ==
  (req.pc = "done" /\ req.exec.end \in {"exit0", "exitN"} /\ req.exec.marker)
    => req.sent = <<404>>

\* what the handler met that throws or rejects
Failures(r) ==
  {x \in {"json", "null", "exec", "parse", "readdir", "stat", "unlink"} :
     \/ x = "json" /\ r.body.json = "invalid"
     \/ x = "null" /\ r.body.json = "null"
     \/ x = "exec" /\ r.exec.end \in {"exitN", "timeout", "maxbuffer"}
     \/ x = "parse" /\ r.ep = "info" /\ r.exec.end = "exit0" /\ ~r.exec.marker
                    /\ r.exec.stdout = "garbage"
     \/ x = "readdir" /\ r.fs.readdir = "throws"
     \/ x = "stat" /\ r.fs.readdir = "ok" /\ r.fs.stat = "throws"
     \/ x = "unlink" /\ r.fs.readdir = "ok" /\ r.fs.unlink = "throws"}

OneResponse ==
  /\ Len(req.sent) <= 1
  /\ req.pc = "done" <=> Len(req.sent) = 1
  /\ \A i \in 1..Len(req.sent) : req.sent[i] \in ResponseStatuses
  /\ (req.pc = "done" /\ Failures(req) # {})
       => /\ req.sent[1] \in {400, 408, 500}
          /\ Len(req.caught) = 1

\* C18: every request ends with exactly one response, whose status is one of
\* 200, 400, 404, 408, 413, 429, 500; every failure of the subprocess, of a
\* JSON parse and of readdir, stat or unlink in the handler is caught and
\* answered with one of them.
C18_OneResponse ==
  /\ []OneResponse
  /\ (req.pc \in {"json", "exec"}) ~> (req.pc = "done")

\* an oversize file whose unlinkSync threw: the handler answered 500
C18_Witness ==
  /\ req.pc = "done"
  /\ Failures(req) = {"unlink"}
  /\ req.sent = <<500>>

\* the tool completed and the handler located a file and read its size
Located ==
  /\ req.pc = "done"
  /\ req.ep = "download"
  /\ req.exec.end = "exit0" /\ ~req.exec.marker
  /\ req.fs.readdir = "ok" /\ req.fs.stat = "ok"

C20_CleanupIdempotent ==
  /\ file.unlinks <= 1
  /\ file.unlinks = 1 => ~file.exists
  /\ file.idle = 0
  /\ file.raised = 0
  /\ file.streaming => file.unlinks + file.failed <= Len(file.fired)

\* all three fired: the first unlinkSync threw, the second removed the file,
\* the third found it gone
C20_Witness ==
  /\ Len(file.fired) = 3
  /\ file.failed = 1
  /\ file.unlinks = 1
  /\ file.pending = {}


\* ---------------------------------------------------------------------------
\* CleanupSpec: the requests to the download route, each followed until
\* nothing its subprocess wrote is left in the temporary directory: the next
\* request is taken up then.  The callback of setTimeout runs 300000
\* milliseconds after the handler returned, as long as the process lives; the
\* two events of the stream need not come (the client went away).

\* ---- POST of the download route, once the files of the last request are gone ----
PostDownloadAfterCleanup ==
  /\ ~file.exists
  /\ file.others = 0
  /\ PostDownload

CleanupNext ==
  \/ PostDownloadAfterCleanup
  \/ RequestJson
  \/ ExecReturns
  \/ StreamEnd
  \/ StreamError
  \/ FallbackTimer

CleanupFairness ==
  /\ WF_vars(RequestJson)
  /\ WF_vars(ExecReturns)
  /\ WF_vars(FallbackTimer)

CleanupSpec == Init /\ [][CleanupNext]_vars /\ CleanupFairness

\* C21 as stated: for every request that reaches the streaming step the
\* located file eventually no longer exists, whether the stream ends, fails or
\* delivers neither event.
C21_FileEventuallyGone == file.streaming ~> ~file.exists

\* C21 amended: for every request that reaches the streaming step the fallback
\* timer eventually fires, whether or not the stream delivered an event; each
\* trigger that finds the file calls unlinkSync, so the file is gone after the
\* first call that succeeds and is still there only while every trigger fired
\* so far had its unlinkSync throw.
C21_GoneUnlessUnlinkThrows ==
  /\ [](file.streaming /\ file.exists => file.failed = Len(file.fired))
  /\ file.streaming ~> (~file.exists \/ "timer" \notin file.pending)

\* neither event of the stream came and the timer removed the file
C21_Witness ==
  /\ file.streaming
  /\ file.fired = <<"timer">>
  /\ file.unlinks = 1
  /\ ~file.exists

\* C22: once the tool was spawned, however the handler of the download route
\* finishes (200, 404, 408, 413 or 500), eventually no file written by the
\* subprocess of the request is in the temporary directory, also when the
\* subprocess wrote more than one file.
C22_NothingLeft ==
  (req.ep = "download" /\ req.spawned /\ req.pc = "done")
    ~> (~file.exists /\ file.others = 0)

\* C28: a download subprocess is allowed to run for up to 15 minutes before the
\* server times it out: a subprocess that exec killed for its time had been
\* given at least 15 minutes.
C28_FifteenMinutes ==
  (req.ep = "download" /\ req.exec.end = "timeout")
    => req.timeout >= 15 * 60 * 1000


\* ---------------------------------------------------------------------------
\* ConcSpec: handlers of one route that run concurrently in the one thread of
\* the server process.  POST is an async function: a call runs without
\* interruption up to its first await, and another handler runs only while
\* this one is suspended at `await request.json()` or `await execAsync(...)`.
\* The limiter is called before the first await and has no await inside.  The
\* clock stands still: all calls fall into one window.

\* ---- bounds ----
\* handlers in flight at a time
MaxHandlers == 2

\* the map of the behaviour's route
RouteMap ==
  IF inflight.limiter = "info" THEN rateLimitMap ELSE downloadRateLimitMap

\* handlers of the key suspended at `await request.json()`
Suspended(slots, k) ==
  Cardinality({h \in DOMAIN slots : slots[h].pc = "json" /\ slots[h].ip = k})

\* a limiter that reads the entry, awaits and writes then: a call does not
\* see the increments of the handlers suspended since their call
MapSeenBeforeAwaits(map, slots) ==
  [k \in DOMAIN map |->
     [map[k] EXCEPT !.count = IF @ > Suspended(slots, k)
                               THEN @ - Suspended(slots, k) ELSE 0]]

\* rateLimitMap.get(ip): the module-level map as the running handler finds it
MapSeen(map, slots) == map

\* ---- POST is called: the limiter, then `await request.json()` ----
ConcPost(h) ==
  /\ inflight.slots[h].pc = "none"
  /\ \E ip \in Keys :
       /\ ip # Observed => inflight.other < MaxOtherCalls
       /\ \E r \in {IF inflight.limiter = "info"
                     THEN checkRateLimit(MapSeen(RouteMap, inflight.slots), ip, now)
                     ELSE checkDownloadRateLimit(
                            MapSeen(RouteMap, inflight.slots), ip, now)} :
            /\ IF inflight.limiter = "info"
               THEN rateLimitMap' = r.map /\ UNCHANGED downloadRateLimitMap
               ELSE downloadRateLimitMap' = r.map /\ UNCHANGED rateLimitMap
            /\ inflight' =
                 [inflight EXCEPT
                    !.slots[h] = IF r.allowed THEN [pc |-> "json", ip |-> ip]
                                 ELSE NoHandler,
                    !.granted[ip] = IF r.allowed THEN @ + 1 ELSE @,
                    !.refused[ip] = @ \/ ~r.allowed,
                    !.other = IF ip # Observed THEN @ + 1 ELSE @]
  /\ UNCHANGED <<now, lhist, req, file>>
  /\ UNCHANGED <<cvars, fvars>>

\* ---- request.json() settles: a 400 or the call of execAsync ----
ConcJson(h) ==
  /\ inflight.slots[h].pc = "json"
  /\ \E valid \in BOOLEAN :
       inflight' = [inflight EXCEPT
                      !.slots[h] = IF valid THEN [@ EXCEPT !.pc = "exec"]
                                   ELSE NoHandler]
  /\ UNCHANGED <<now, rateLimitMap, downloadRateLimitMap, lhist, req, file>>
  /\ UNCHANGED <<cvars, fvars>>

\* ---- execAsync settles: the handler returns ----
ConcExec(h) ==
  /\ inflight.slots[h].pc = "exec"
  /\ inflight' = [inflight EXCEPT !.slots[h] = NoHandler]
  /\ UNCHANGED <<now, rateLimitMap, downloadRateLimitMap, lhist, req, file>>
  /\ UNCHANGED <<cvars, fvars>>

ConcInit ==
  /\ ClientInit
  /\ now = 0
  /\ rateLimitMap = EmptyMap
  /\ downloadRateLimitMap = EmptyMap
  /\ lhist = NoLimiterHist
  /\ req = NoRequest
  /\ file = NoFile
  /\ \E l \in Limiters :
       inflight = [NoInflight EXCEPT
                     !.limiter = l,
                     !.slots = [h \in 1..MaxHandlers |-> NoHandler]]
  /\ formatsCall = NoCallYet
  /\ urlCall = NoCallYet
  /\ XInit

ConcNext ==
  \/ \E h \in 1..MaxHandlers : ConcPost(h)
  \/ \E h \in 1..MaxHandlers : ConcJson(h)
  \/ \E h \in 1..MaxHandlers : ConcExec(h)

ConcSpec == ConcInit /\ [][ConcNext]_vars

\* C26: under every interleaving of concurrently handled requests at their
\* suspension points the check-and-consume of a limiter is atomic: for each
\* key the stored count is the number of calls allowed, none lost and none
\* counted twice, so the calls allowed for one key within one window never
\* exceed the maximum, and a call is refused only when the maximum is used up.
C26_AtomicCheckAndConsume ==
  \A k \in Keys :
    /\ inflight.granted[k] <= LimitMax(inflight.limiter)
    /\ Get(RouteMap, k).count = inflight.granted[k]
    /\ inflight.refused[k] => inflight.granted[k] = LimitMax(inflight.limiter)

\* the maximum was granted and a call was refused while a handler of the
\* same key is suspended at `await request.json()`
C26_Witness ==
  /\ inflight.limiter # "none"
  /\ inflight.granted[Observed] = LimitMax(inflight.limiter)
  /\ inflight.refused[Observed]
  /\ \E h \in DOMAIN inflight.slots :
       inflight.slots[h] = [pc |-> "json", ip |-> Observed]


\* ---------------------------------------------------------------------------
\* FormatSpec: one call of processFormats(videoInfo.formats) of the metadata
\* route, for every list of at most MaxFormats raw formats built from
\* RawShapes.  Strings are sequences of characters; a number is kept in tenths
\* so that a bit rate like 129.5 has its text.

\* ---- bounds ----
\* raw formats in the list the tool reported
MaxFormats == 2

\* ---- text of numbers ----
DigitChars == <<"0", "1", "2", "3", "4", "5", "6", "7", "8", "9">>

IsDigit(c) == \E d \in 1..10 : DigitChars[d] = c

DigitValue(c) == (CHOOSE d \in 1..10 : DigitChars[d] = c) - 1

RECURSIVE Decimal(_)
\* String(n) of a non-negative integer
Decimal(n) ==
  IF n < 10 THEN <<DigitChars[n + 1]>>
  ELSE Decimal(n \div 10) \o <<DigitChars[(n % 10) + 1]>>

\* `${x}` of the number x10 / 10
NumberText(x10) ==
  Decimal(x10 \div 10)
    \o (IF x10 % 10 = 0 THEN <<>> ELSE <<".", DigitChars[(x10 % 10) + 1]>>)

RECURSIVE parseInt(_)
\* Number.parseInt of a string of digits
parseInt(str) ==
  IF str = <<>> THEN 0
  ELSE 10 * parseInt(SubSeq(str, 1, Len(str) - 1)) + DigitValue(str[Len(str)])

\* ---- str.match(/(\d+)suffix/) ----
\* the last index of the digits that start at i
RunEnd(str, i) ==
  CHOOSE j \in i..Len(str) :
    /\ \A k \in i..j : IsDigit(str[k])
    /\ j = Len(str) \/ ~IsDigit(str[j + 1])

Follows(str, j, suffix) ==
  /\ j + Len(suffix) <= Len(str)
  /\ \A k \in 1..Len(suffix) : str[j + k] = suffix[k]

\* the group captured by the leftmost match, <<>> when match returns null; the
\* suffix begins with a letter, so \d+ takes the digits up to it
MatchDigits(str, suffix) ==
  LET starts == {i \in 1..Len(str) :
                   IsDigit(str[i]) /\ Follows(str, RunEnd(str, i), suffix)}
  IN IF starts = {} THEN <<>>
     ELSE LET i == CHOOSE x \in starts : \A y \in starts : x <= y
          IN SubSeq(str, i, RunEnd(str, i))

P == <<"p">>
Kbps == <<"k", "b", "p", "s">>
Medium == <<"m", "e", "d", "i", "u", "m">>
UnknownQuality ==
  <<"U", "n", "k", "n", "o", "w", "n", " ", "q", "u", "a", "l", "i", "t", "y">>

\* ---- raw formats of the tool's JSON ----
\*   format_id   <<>> when the field is missing
\*   height      0 when missing
\*   abr10       abr in tenths of kbit/s, 0 when missing
\*   quality     yt-dlp reports a number; a string stands for a label
\*   vcodec      "absent" when missing, "none" for audio only
RawShapes ==
  {[format_id |-> <<"f">>, height |-> h, abr10 |-> a, quality |-> Undefined,
    format_note |-> Undefined, vcodec |-> v] :
     h \in {0, 144, 1080}, a \in {0, 480, 1295}, v \in {"none", "avc1"}}
  \cup {[format_id |-> <<"f">>, height |-> 0, abr10 |-> 480, quality |-> Undefined,
         format_note |-> Undefined, vcodec |-> "absent"]}
  \cup {[format_id |-> <<"f">>, height |-> 0, abr10 |-> 0, quality |-> q,
         format_note |-> Undefined, vcodec |-> v] :
          q \in {NotAString, Str(Medium)}, v \in {"none", "avc1"}}
  \cup {[format_id |-> <<"f">>, height |-> 0, abr10 |-> 120000, quality |-> Undefined,
         format_note |-> Undefined, vcodec |-> "none"],
        [format_id |-> <<>>, height |-> 1080, abr10 |-> 0, quality |-> Undefined,
         format_note |-> Undefined, vcodec |-> "avc1"]}

\* the lists of at most max raw formats: the i-th format has the identifier i
RawLists(max) ==
  UNION {{[i \in 1..n |->
             [l[i] EXCEPT !.format_id = IF @ = <<>> THEN <<>> ELSE Decimal(i)]] :
            l \in [1..n -> RawShapes]} : n \in 0..max}

\* a value that is not undefined, "" or 0
Truthy(v) == v.type = "number" \/ (v.type = "string" /\ v.value # <<>>)

getQualityString(format) ==
  IF format.height # 0 THEN Str(Decimal(format.height) \o P)
  ELSE IF format.abr10 # 0 THEN Str(NumberText(format.abr10) \o Kbps)
  ELSE IF Truthy(format.quality) THEN format.quality
  ELSE IF Truthy(format.format_note) THEN format.format_note
  ELSE Str(UnknownQuality)

\* quality.match of a value that is no string throws a TypeError
TypeError == -1

getQualityScore(quality, vcodec) ==
  IF quality.type # "string" THEN TypeError
  ELSE LET heightMatch == MatchDigits(quality.value, P)
           bitrateMatch == MatchDigits(quality.value, Kbps)
       IN IF vcodec \notin {"absent", "none"} /\ heightMatch # <<>>
          THEN parseInt(heightMatch) + 10000
          ELSE IF bitrateMatch # <<>> THEN parseInt(bitrateMatch) ELSE 0

Score(d) == getQualityScore(d.quality, d.vcodec)

\* Array.prototype.sort with (a, b) => bScore - aScore is stable: an element
\* goes behind those that score at least as much
InsertByScore(sorted, d) ==
  LET k == Cardinality({i \in 1..Len(sorted) : Score(sorted[i]) >= Score(d)})
  IN SubSeq(sorted, 1, k) \o <<d>> \o SubSeq(sorted, k + 1, Len(sorted))

RECURSIVE SortByScore(_)
SortByScore(list) ==
  IF list = <<>> THEN <<>>
  ELSE InsertByScore(SortByScore(SubSeq(list, 1, Len(list) - 1)), list[Len(list)])

\* filter, map, sort; sort calls the comparator when it has two elements
processFormats(raw) ==
  LET kept == SelectSeq(raw, LAMBDA f :
                  f.format_id # <<>> /\ (f.height # 0 \/ f.abr10 # 0 \/ Truthy(f.quality)))
      mapped == [i \in 1..Len(kept) |->
                   [format_id |-> kept[i].format_id,
                    quality |-> getQualityString(kept[i]),
                    vcodec |-> kept[i].vcodec]]
  IN IF Len(mapped) >= 2 /\ \E i \in 1..Len(mapped) : Score(mapped[i]) = TypeError
     THEN [threw |-> TRUE, list |-> <<>>]
     ELSE [threw |-> FALSE, list |-> SortByScore(mapped)]

\* ---- formats: processFormats(videoInfo.formats || []) ----
CallProcessFormats ==
  /\ ~formatsCall.called
  /\ formatsCall' = [formatsCall EXCEPT !.called = TRUE,
                                        !.ret = processFormats(formatsCall.arg)]
  /\ UNCHANGED <<now, rateLimitMap, downloadRateLimitMap, lhist, req, file,
                 inflight, urlCall, xvars>>
  /\ UNCHANGED cvars

FormatInit ==
  /\ ClientInit
  /\ now = 0
  /\ rateLimitMap = EmptyMap
  /\ downloadRateLimitMap = EmptyMap
  /\ lhist = NoLimiterHist
  /\ req = NoRequest
  /\ file = NoFile
  /\ inflight = NoInflight
  /\ \E raw \in RawLists(MaxFormats) : formatsCall = [NoCallYet EXCEPT !.arg = raw]
  /\ urlCall = NoCallYet
  /\ XInit

FormatNext == CallProcessFormats

FormatSpec == FormatInit /\ [][FormatNext]_vars

\* the raw format a descriptor of the result was made from
RawOf(d) ==
  CHOOSE f \in {formatsCall.arg[i] : i \in 1..Len(formatsCall.arg)} :
    f.format_id = d.format_id

HasVideo(d) == d.vcodec \notin {"absent", "none"}

\* C23: in the list processFormats returns every descriptor whose video codec
\* is present (neither missing nor "none") precedes every audio-only
\* descriptor, whatever the bit rate of the one and the quality string of the
\* other; of two descriptors with a video codec the one of the greater height
\* comes first, of two audio-only descriptors the one of the greater bit rate.
C23_VideoFirst ==
  (formatsCall.called /\ ~formatsCall.ret.threw) =>
    LET out == formatsCall.ret.list
    IN \A i, j \in 1..Len(out) :
         i < j =>
           /\ ~(~HasVideo(out[i]) /\ HasVideo(out[j]))
           /\ (HasVideo(out[i]) /\ HasVideo(out[j])
                 /\ RawOf(out[i]).height # 0 /\ RawOf(out[j]).height # 0)
                => RawOf(out[i]).height >= RawOf(out[j]).height
           /\ (~HasVideo(out[i]) /\ ~HasVideo(out[j])
                 /\ RawOf(out[i]).abr10 # 0 /\ RawOf(out[j]).abr10 # 0)
                => RawOf(out[i]).abr10 >= RawOf(out[j]).abr10


\* ---------------------------------------------------------------------------
\* UrlSpec: one call of validateYouTubeUrl, for every string of UrlTexts.

UrlHostnames ==
  validHosts \cup {"example.com", "music.youtube.com", "youtube.com.example.com"}

UrlPathnames ==
  Pathnames \cup {<<"/", "s", "h", "o", "r", "t", "s">>,
                  <<"/", "a">> \o WatchPath,
                  WatchPath \o <<"/", "a">>}

UrlTexts ==
  {EmptyText, Garbage}
    \cup {[kind |-> "url", hostname |-> h, pathname |-> pn, query |-> q,
           padded |-> pd] :
            h \in UrlHostnames, pn \in UrlPathnames, q \in Queries, pd \in BOOLEAN}

\* ---- validateYouTubeUrl(url) ----
CallValidateYouTubeUrl ==
  /\ ~urlCall.called
  /\ urlCall' = [urlCall EXCEPT !.called = TRUE,
                                !.ret = validateYouTubeUrl(urlCall.arg)]
  /\ UNCHANGED <<now, rateLimitMap, downloadRateLimitMap, lhist, req, file,
                 inflight, formatsCall, xvars>>
  /\ UNCHANGED cvars

UrlInit ==
  /\ ClientInit
  /\ now = 0
  /\ rateLimitMap = EmptyMap
  /\ downloadRateLimitMap = EmptyMap
  /\ lhist = NoLimiterHist
  /\ req = NoRequest
  /\ file = NoFile
  /\ inflight = NoInflight
  /\ formatsCall = NoCallYet
  /\ \E u \in UrlTexts : urlCall = [NoCallYet EXCEPT !.arg = u]
  /\ XInit

UrlNext == CallValidateYouTubeUrl

UrlSpec == UrlInit /\ [][UrlNext]_vars

\* the four hosts of the allow-list
AllowListed(h) ==
  h = "www.youtube.com" \/ h = "youtube.com" \/ h = "youtu.be" \/ h = "m.youtube.com"

\* a watch path holds "/watch", a short-form path holds "/shorts/"; a path is
\* non-empty when there is more than the root "/"
AcceptedShape(h, pn) ==
  \/ \E i \in 1..(Len(pn) - 5) :
       SubSeq(pn, i, i + 5) = <<"/", "w", "a", "t", "c", "h">>
  \/ \E i \in 1..(Len(pn) - 7) :
       SubSeq(pn, i, i + 7) = <<"/", "s", "h", "o", "r", "t", "s", "/">>
  \/ h = "youtu.be" /\ pn # <<"/">>

\* C24: validateYouTubeUrl accepts exactly the URLs whose host is one of the
\* four allow-listed hosts and whose path is a watch path, a short-form path
\* or, on youtu.be only, any non-empty path; it rejects every other host, an
\* allow-listed host with another path such as the root, and every string
\* that is no URL.
C24_AcceptsExactly ==
  urlCall.called =>
    (urlCall.ret <=>
       /\ urlCall.arg.kind = "url"
       /\ AllowListed(urlCall.arg.hostname)
       /\ AcceptedShape(urlCall.arg.hostname, urlCall.arg.pathname))

\* https://m.youtube.com/ with the root path was rejected
C24_Witness ==
  /\ urlCall.called
  /\ urlCall.arg.kind = "url"
  /\ urlCall.arg.hostname = "m.youtube.com"
  /\ urlCall.arg.pathname = <<"/">>
  /\ urlCall.ret = FALSE


\* ================= the list of items =================
\* C25: no item is deleted automatically.  The list gains an item only by a
\* creation, which puts one queued item at its head, and loses items only by
\* clear-completed, which takes out exactly the items that are completed and
\* leaves the status, progress and error of every other item and the pending
\* queue as they were; an item of any other status is never taken out.
C25_OnlyClearRemoves ==
  /\ \A x \in hist.lost : x[2] = "completed" /\ x[3] = "clear"
  /\ hist.clearKept
  /\ hist.queueKept
  /\ Len(downloads) + Cardinality(hist.lost) = nextId
  /\ hist.added # {} => hist.added = {nextId}
  /\ nextId < MaxItems =>
       LET dl == ApplyDl(downloads, UAdd(nextId + 1, nextCtrl + 1))
       IN /\ Len(dl) = Len(downloads) + 1
          /\ dl[1].id = nextId + 1 /\ dl[1].status = "queued"
          /\ \A i \in 1..Len(downloads) : dl[i + 1] = downloads[i]

\* a clear took the completed item out and left one that failed and one
\* that was cancelled
C25_Witness ==
  /\ hist.lost # {}
  /\ \E i \in 1..Len(downloads) : downloads[i].status = "error"
  /\ \E i \in 1..Len(downloads) : downloads[i].status = "cancelled"


\* ================= the retry of an idle page =================
\* C29: after a retry is requested while no item is preparing or downloading
\* and the queue holds nothing else, the retried item eventually enters
\* preparing (or is cancelled by the user first).
C29_RetryIsAdmitted ==
  \A t \in Tickets :
    (hist.retry.id # 0 /\ ActiveItems = {} /\ qTick = <<t>>)
      ~> (TickAdmitted(t) \/ TickCancelled(t))


\* ================= two creations in one millisecond =================
\* The identifier of an item is `${videoData.id}-${format.format_id}-${Date.now()}`.
\* Spec gives every creation a fresh identifier: another format, or the same
\* format at a later millisecond.  SameMsSpec adds the creation that Spec leaves
\* out: the same format of the same video, clicked again before Date.now()
\* has grown.

\* creations of that kind in one behaviour
MaxSameMs == 1
\* creations with a fresh identifier in one behaviour of SameMsSpec
MaxSameMsItems == 2

\* ---- handleDownload, Date.now() as at the creation before ----
\* The button of a format is disabled while an item of that format is shown
\* queued, preparing or downloading (downloadingFormatIds), so the earlier
\* item has ended.  The template string gives its identifier again.
handleDownloadSameMs ==
  /\ sameMs < MaxSameMs
  /\ nextId >= 1
  /\ \A i \in 1..Len(downloads) :
       downloads[i].id = nextId => ~CancelShown(downloads[i])
  /\ LET id == nextId
         ctrl == nextCtrl + 1
         S == [q |-> Append(downloadQueueRef, id),
               qt |-> Append(qTick, nextTick + 1),
               ups |-> Append(updates, UAdd(id, ctrl))]
     IN ClickFlush(RenderInput(StepHist), S)
  /\ sameMs' = sameMs + 1
  /\ UNCHANGED svars /\ UNCHANGED <<aborted, nextId, retries, failures, progressEvents>>

SameMsNext ==
  \/ handleDownload /\ nextId' <= MaxSameMsItems
  \/ handleDownloadSameMs
  \/ handleCancelQueued
  \/ handleCancelActive
  \/ handleRetryDownload
  \/ handleClearCompleted
  \/ Render
  \/ RunEffect
  \/ RunTimer
  \/ XhrProgress
  \/ XhrSettle

SameMsSpec == Init /\ [][SameMsNext]_vars

\* C27: no two items of the list share an identifier, whatever the sequence
\* of download requests, repeated requests for the same format of the same
\* video included.
C27_DistinctIds ==
  \A i, j \in 1..Len(downloads) : downloads[i].id = downloads[j].id => i = j

\* C30: an admission whose identifier belongs to no queued item changes no
\* item, not the counter and no request, and schedules one more call of
\* processQueue whose closure holds a counter below the limit; that call, when
\* the queue is not empty, takes the next identifier from the head and
\* dispatches its admission.
C30_SkipExaminesNext ==
  /\ hist.skip.on =>
       /\ hist.skip.post = hist.skip.pre
       /\ hist.skip.apost = hist.skip.apre
       /\ hist.skip.xpost = hist.skip.xpre
       /\ Len(hist.skip.tpost) = Len(hist.skip.tpre) + 1
  /\ \A i \in 1..Len(timers) : timers[i] < MAX_CONCURRENT_DOWNLOADS
  /\ (hist.deferred.on /\ hist.deferred.qpre # <<>>) =>
       /\ hist.deferred.active < MAX_CONCURRENT_DOWNLOADS
       /\ downloadQueueRef = Tail(hist.deferred.qpre)
       /\ updates # <<>>
       /\ updates[Len(updates)].t = "admit"
       /\ updates[Len(updates)].id = Head(hist.deferred.qpre)

\* the head of the queue was skipped and the item queued behind it was taken
\* by the deferred call and has entered preparing
C30_Witness ==
  \E k \in 1..Len(hist.admitLog) :
    /\ hist.admitLog[k].tick \in hist.viaTimer
    /\ \E t \in hist.skipped : t < hist.admitLog[k].tick
    /\ HasItem(downloads, hist.admitLog[k].id)
    /\ Active(Find(downloads, hist.admitLog[k].id))


\* ================= the entries of the limiter maps =================
\* C34: every stored entry of a limiter has a count between 1 and the
\* configured maximum; a denied call leaves the entry of its key as it found
\* it, and an allowed call that finds an entry whose reset time has not passed
\* adds exactly 1 to the count and leaves the reset time as it was.
C34_EntryBounds ==
  LET c == lhist.last
  IN /\ \A k \in DOMAIN TheMap :
          /\ TheMap[k].count >= 1
          /\ TheMap[k].count <= LimitMax(lhist.limiter)
     /\ (c.at # NoTime /\ ~c.allowed) =>
          /\ c.pre # NoEntry
          /\ c.entry = c.pre
     /\ (c.at # NoTime /\ c.allowed /\ c.pre # NoEntry /\ ~(c.at > c.pre.resetTime)) =>
          /\ c.entry.count = c.pre.count + 1
          /\ c.entry.resetTime = c.pre.resetTime

\* a call at the maximum was denied, at a time later than the call that
\* opened the window, after the calls before it had counted up to the maximum
C34_Witness ==
  LET c == lhist.last
  IN /\ c.at # NoTime
     /\ ~c.allowed
     /\ c.pre.count = LimitMax(lhist.limiter)
     /\ c.at > c.t0
     /\ lhist.granted = LimitMax(lhist.limiter)


\* ================= one client's quota =================
\* QuotaSpec: LimiterSpec, and calls of the limiter the behaviour does not
\* follow, by either client.

\* steps of the clock in one behaviour of QuotaSpec
MaxQuotaAdvances == 2

\* ---- a call of the other endpoint's limiter ----
CallTheOtherLimiter ==
  \E ip \in Keys :
    /\ lhist.limiter \in Limiters
    /\ lhist.other < MaxOtherCalls
    /\ IF lhist.limiter = "info"
       THEN /\ downloadRateLimitMap' =
                 checkDownloadRateLimit(downloadRateLimitMap, ip, now).map
            /\ UNCHANGED rateLimitMap
       ELSE /\ rateLimitMap' = checkRateLimit(rateLimitMap, ip, now).map
            /\ UNCHANGED downloadRateLimitMap
    /\ lhist' = Other(lhist)
    /\ UNCHANGED now
    /\ UNCHANGED rvars
    /\ UNCHANGED <<cvars, ovars>>

QuotaNext ==
  \/ ClockAdvance /\ lhist'.advances <= MaxQuotaAdvances
  \/ CallCheckRateLimit
  \/ CallCheckDownloadRateLimit
  \/ CallTheOtherLimiter

QuotaSpec == LimiterInit /\ [][QuotaNext]_vars

\* C35: the answer of a limiter to a call for key k is the answer it would
\* have given had only the calls for k on that limiter been made: calls for
\* another key, the sweep they run, and calls of the other limiter change
\* neither the answer nor the entry the call leaves.
C35_OwnCallsOnly ==
  LET c == lhist.last
  IN c.at # NoTime =>
       /\ c.allowed = c.alone
       /\ c.entry = Get(lhist.alone, Observed)

\* the observed client had called before, its entry expired and a call of the
\* other client swept it; the observed client calls again, finds no entry and
\* is allowed
C35_Witness ==
  LET c == lhist.last
  IN /\ c.at # NoTime
     /\ c.t0 # NoTime
     /\ c.pre = NoEntry
     /\ c.allowed
     /\ lhist.other >= 1


AFormatId == <<"7">>

\* ---- request.json() of the download route settles with the drawn url ----
FileRequestJson ==
  /\ req.pc = "json"
  /\ req.ep = "download"
  /\ \E vercel \in BOOLEAN :
       req' = DownloadAfterJson(req,
                                [json |-> "object", url |-> Str(urlCall.arg),
                                 formatId |-> Str(AFormatId)],
                                vercel)
  /\ UNCHANGED <<now, rateLimitMap, downloadRateLimitMap, lhist, file>>
  /\ UNCHANGED <<cvars, ovars>>

FileUrlNext ==
  \/ PostDownload
  \/ FileRequestJson

FileUrlSpec == UrlInit /\ [][FileUrlNext]_vars

\* C38: the download route starts the external tool only for a source URL that
\* passes the validation of the metadata route (validateYouTubeUrl of the
\* truncated string); a download request whose URL that validation rejects is
\* answered 400 and no subprocess is started.
C38_SameUrlValidation ==
  (req.ep = "download" /\ req.read
     /\ ~validateYouTubeUrl(sanitizeInput(urlCall.arg)))
    => ~req.spawned /\ req.sent = <<400>>


\* ---------------------------------------------------------------------------
\* TypeSpec: the page requests files and the download route answers 200 with
\* a file of ServedFiles; the load handler of downloadVideo decides.

\* ---- bounds ----
\* items requested
MaxTypeItems == 1

\* ---- strings as sequences of characters, for String.prototype.includes ----
contentTypes ==
  ("mp4" :> <<"v", "i", "d", "e", "o", "/", "m", "p", "4">>) @@
  ("webm" :> <<"v", "i", "d", "e", "o", "/", "w", "e", "b", "m">>) @@
  ("mkv" :> <<"v", "i", "d", "e", "o", "/", "x", "-", "m", "a", "t", "r", "o", "s", "k", "a">>) @@
  ("avi" :> <<"v", "i", "d", "e", "o", "/", "x", "-", "m", "s", "v", "i", "d", "e", "o">>) @@
  ("mov" :> <<"v", "i", "d", "e", "o", "/", "q", "u", "i", "c", "k", "t", "i", "m", "e">>) @@
  ("mp3" :> <<"a", "u", "d", "i", "o", "/", "m", "p", "e", "g">>) @@
  ("m4a" :> <<"a", "u", "d", "i", "o", "/", "m", "p", "4">>) @@
  ("aac" :> <<"a", "u", "d", "i", "o", "/", "a", "a", "c">>) @@
  ("ogg" :> <<"a", "u", "d", "i", "o", "/", "o", "g", "g">>) @@
  ("wav" :> <<"a", "u", "d", "i", "o", "/", "w", "a", "v">>)

OctetStream == <<"a", "p", "p", "l", "i", "c", "a", "t", "i", "o", "n", "/", "o", "c", "t", "e", "t", "-", "s", "t", "r", "e", "a", "m">>

VideoWord == <<"v", "i", "d", "e", "o">>
AudioWord == <<"a", "u", "d", "i", "o">>

\* ---- names of files yt-dlp leaves, split at the dots ----
\* yt-dlp takes the extension from the format: mp4, webm, m4a, 3gp of the
\* legacy formats, flv, opus, mhtml of the storyboard formats
TableExtensions == DOMAIN contentTypes
OtherExtensions == {"3gp", "flv", "opus", "mhtml"}

ServedFiles ==
  {<<"t", e>> : e \in TableExtensions \cup OtherExtensions}
    \cup {<<"t", "MP4">>, <<"t", "">>, <<"t">>, <<"t", "mp4", "part">>}

ServedSizes == {0, 1}

\* String.prototype.toLowerCase, on the extensions drawn
toLowerCase(str) == IF str = "MP4" THEN "mp4" ELSE str

\* downloadedFile.split(".").pop() || "mp4"
FileExtension(f) == IF f[Len(f)] = "" THEN "mp4" ELSE f[Len(f)]

\* contentTypes[fileExtension.toLowerCase()] || "application/octet-stream"
getContentType(fileExtension) ==
  IF toLowerCase(fileExtension) \in DOMAIN contentTypes
  THEN contentTypes[toLowerCase(fileExtension)]
  ELSE OctetStream

\* ---- downloadVideo: the load handler for a status of 200 to 299 ----
LoadOutcome(contentType, size) ==
  IF contentType = <<>>
       \/ (~Includes(contentType, VideoWord) /\ ~Includes(contentType, AudioWord))
  THEN "badtype"
  ELSE IF size = 0 THEN "empty"
  ELSE "ok"

\* ---- the download route returns new NextResponse(fileStream, {headers}) ----
ServerStreams ==
  /\ \E x \in xhrs : \E f \in ServedFiles : \E size \in ServedSizes :
       /\ ~(served.on /\ served.id = x.id)
       /\ served' = [on |-> TRUE, id |-> x.id, file |-> f, size |-> size,
                     contentType |-> getContentType(FileExtension(f))]
  /\ UNCHANGED <<procs, tempDir, posts>>
  /\ UNCHANGED <<now, rateLimitMap, downloadRateLimitMap, lhist, req, file,
                 inflight, formatsCall, urlCall>>
  /\ UNCHANGED cvars

\* ---- downloadVideo: the load event of that response ----
XhrLoad ==
  \E x \in xhrs :
    /\ served.on
    /\ served.id = x.id
    /\ Settle(x, LoadOutcome(served.contentType, served.size))

TypeNext ==
  \/ handleDownload /\ nextId' <= MaxTypeItems
  \/ Render
  \/ RunEffect
  \/ ServerStreams
  \/ XhrLoad

TypeSpec == Init /\ [][TypeNext]_vars

\* C37: every file the download route streams with status 200 is accepted by
\* the page: whatever the extension of the file, in the MIME table or not, a
\* response of status 200 with a body that is not empty never puts the item
\* into the error status.
C37_Served200Accepted ==
  \A i \in 1..Len(downloads) :
    (served.on /\ served.size > 0 /\ downloads[i].id = served.id)
      => downloads[i].status # "error"


\* ---------------------------------------------------------------------------
\* LoadSpec: the page and the yt-dlp subprocesses the download route starts
\* for its requests.  The route awaits execAsync(command, {timeout, maxBuffer})
\* and passes no signal of the request to it: a subprocess ends when yt-dlp
\* exits or exec kills it for its time, whatever happens to the connection.
\* The response is sent after the subprocess has ended.

\* ---- bounds ----
\* items requested
MaxLoadItems == 2

Running == {p \in procs : p.running}

\* the subprocess started for request x, if there is one
ProcOf(x) == {p \in procs : p.ctrl = x.ctrl}

\* ---- POST of the download route up to `await execAsync(...)` ----
\* ctrl names the request: every request of the page has its own controller
ServerSpawns ==
  /\ \E x \in xhrs :
       /\ ProcOf(x) = {}
       /\ procs' = procs \cup {[ctrl |-> x.ctrl, id |-> x.id, running |-> TRUE,
                                broken |-> FALSE]}
  /\ UNCHANGED <<served, tempDir, posts>>
  /\ UNCHANGED <<now, rateLimitMap, downloadRateLimitMap, lhist, req, file,
                 inflight, formatsCall, urlCall>>
  /\ UNCHANGED cvars

\* ---- execAsync settles: yt-dlp exited or was killed after `timeout` ----
SubprocessExits ==
  /\ \E p \in Running :
       procs' = (procs \ {p}) \cup {[p EXCEPT !.running = FALSE]}
  /\ UNCHANGED <<served, tempDir, posts>>
  /\ UNCHANGED <<now, rateLimitMap, downloadRateLimitMap, lhist, req, file,
                 inflight, formatsCall, urlCall>>
  /\ UNCHANGED cvars

\* ---- the connection of a request breaks while its subprocess runs ----
ConnectionBreaks ==
  /\ \E x \in xhrs : \E p \in ProcOf(x) \cap Running :
       /\ ~p.broken
       /\ procs' = (procs \ {p}) \cup {[p EXCEPT !.broken = TRUE]}
  /\ UNCHANGED <<served, tempDir, posts>>
  /\ UNCHANGED <<now, rateLimitMap, downloadRateLimitMap, lhist, req, file,
                 inflight, formatsCall, urlCall>>
  /\ UNCHANGED cvars

\* ---- downloadVideo: the load event and the error event ----
\* a request the route refused before execAsync ends with 429, 400 or 500; a
\* response of the rest of the handler comes after the subprocess; a request
\* whose subprocess runs ends only by the error event of a broken connection
LoadSettle ==
  \E x \in xhrs : \E o \in Outcomes :
    /\ ProcOf(x) = {} => o \in {"s429", "s500", "network"}
    /\ \A p \in ProcOf(x) :
         /\ p.running => p.broken
         /\ p.broken => o = "network"
    /\ Settle(x, o)

LoadNext ==
  \/ handleDownload /\ nextId' <= MaxLoadItems
  \/ handleCancelActive
  \/ handleRetryDownload
  \/ Render
  \/ RunEffect
  \/ ServerSpawns
  \/ SubprocessExits
  \/ ConnectionBreaks
  \/ LoadSettle

LoadSpec == Init /\ [][LoadNext]_vars

OfOpenRequest == {p \in Running : \E x \in xhrs : x.ctrl = p.ctrl}

MaxPosts == 2

\* ---- sanitizeFilename ----
InvalidChars == {"<", ">", ":", "\"", "/", "\\", "|", "?", "*"}

\* characters outside \x20-\x7E among those drawn
NonPrintable == {"\t"}

FILENAME_MAX_LENGTH == 200

\* .replace(/\s+/g, " "): of a run of spaces the first stays
CollapseSpaces(str) ==
  SelectIdx(str, {i \in 1..Len(str) : str[i] # " " \/ i = 1 \/ str[i - 1] # " "}, 1)

\* String.prototype.trim, of a string whose runs of spaces are collapsed
Trim(str) ==
  LET from == IF Len(str) >= 1 /\ str[1] = " " THEN 2 ELSE 1
      to == IF Len(str) >= from /\ str[Len(str)] = " " THEN Len(str) - 1 ELSE Len(str)
  IN SubSeq(str, from, to)

sanitizeFilename(filename) ==
  LET valid == SelectIdx(filename, {i \in 1..Len(filename) : filename[i] \notin InvalidChars}, 1)
      ascii == SelectIdx(valid, {i \in 1..Len(valid) : valid[i] \notin NonPrintable}, 1)
      trimmed == Trim(CollapseSpaces(ascii))
  IN SubSeq(trimmed, 1, Min(Len(trimmed), FILENAME_MAX_LENGTH))

\* `${sanitizedTitle} - ${sanitizedChannel}`
Filename(title, channel) ==
  sanitizeFilename(title) \o <<" ", "-", " ">> \o sanitizeFilename(channel)

\* ---- what the requests carry ----
\* title and channel; ext is the extension yt-dlp substitutes for %(ext)s,
\* that of the format asked for.  Two handlers may serve the same request.
TempChannel == <<"c">>

TempRequests ==
  {[title |-> <<"a">>, ext |-> "mp4"],
   [title |-> <<"a", "?">>, ext |-> "webm"],
   [title |-> <<"b", "a">>, ext |-> "mp4"]}

ExtChars(ext) == IF ext = "mp4" THEN <<"m", "p", "4">> ELSE <<"w", "e", "b", "m">>

\* ---- files of tempDir ----
\*   base, ext  the name
\*   writer     the handler whose subprocess wrote it
FullName(f) == f.base \o <<".">> \o ExtChars(f.ext)

SamePath(f, g) == f.base = g.base /\ f.ext = g.ext

NoFileYet == [base |-> <<>>, ext |-> "", writer |-> 0]

\* ---- a handler ----
\*   pc        "none"; "exec" at `await execAsync`; "opening" after the return
\*             of the response, the stream has not opened the file; "streaming";
\*             "failed" when the stream could not open it; "ended"; "done" for
\*             a 500
\*   title     the title of its request
\*   filename  the sanitized name it searches for
\*   ext       the extension its subprocess writes
\*   wrote     the subprocess has left its file
\*   selected  downloadedFiles[0]
\*   pending   the clean-up triggers that have not fired
\*   robbed    history: "opening" or "streaming" if a trigger of another
\*             handler deleted the selected file while this one was there
NoPost ==
  [pc |-> "none", title |-> <<>>, filename |-> <<>>, ext |-> "", wrote |-> FALSE,
   selected |-> NoFileYet, pending |-> {}, robbed |-> "no"]

\* a handler that takes the first file of the directory
MatchesAnyFile(files, filename) == files

\* files.filter((f) => f.includes(filename))
Matches(files, filename) == {f \in files : Includes(FullName(f), filename)}

\* ---- POST up to `await execAsync(command, ...)` ----
\* the handlers are numbered in the order of their calls
TempPost(h) ==
  /\ posts[h].pc = "none"
  /\ h > 1 => posts[h - 1].pc # "none"
  /\ \E body \in TempRequests :
       posts' = [posts EXCEPT
                   ![h] = [NoPost EXCEPT !.pc = "exec", !.title = body.title,
                                         !.filename = Filename(body.title, TempChannel),
                                         !.ext = body.ext]]
  /\ UNCHANGED <<served, procs, tempDir>>
  /\ UNCHANGED <<now, rateLimitMap, downloadRateLimitMap, lhist, req, file,
                 inflight, formatsCall, urlCall>>
  /\ UNCHANGED cvars

\* ---- yt-dlp -o "<tempDir>/<filename>.%(ext)s": the file of the subprocess ----
\* yt-dlp leaves a file of that name that is there already as it is
YtDlpWrites(h) ==
  /\ posts[h].pc = "exec"
  /\ ~posts[h].wrote
  /\ LET f == [base |-> posts[h].filename, ext |-> posts[h].ext, writer |-> h]
     IN tempDir' = IF \E g \in tempDir : SamePath(f, g) THEN tempDir
                   ELSE tempDir \cup {f}
  /\ posts' = [posts EXCEPT ![h].wrote = TRUE]
  /\ UNCHANGED <<served, procs>>
  /\ UNCHANGED <<now, rateLimitMap, downloadRateLimitMap, lhist, req, file,
                 inflight, formatsCall, urlCall>>
  /\ UNCHANGED cvars

\* ---- execAsync settles: readdirSync, filter, [0], the response ----
\* readdirSync returns the names in the order of the directory, which no
\* statement of the handler fixes: downloadedFiles[0] is any of the matches
ExecSettles(h) ==
  /\ posts[h].pc = "exec"
  /\ posts[h].wrote
  /\ LET downloadedFiles == Matches(tempDir, posts[h].filename)
     IN IF downloadedFiles = {}
        THEN posts' = [posts EXCEPT ![h].pc = "done"]
        ELSE \E f \in downloadedFiles :
               posts' = [posts EXCEPT ![h].pc = "opening", ![h].selected = f,
                                      ![h].pending = Triggers]
  /\ UNCHANGED <<served, procs, tempDir>>
  /\ UNCHANGED <<now, rateLimitMap, downloadRateLimitMap, lhist, req, file,
                 inflight, formatsCall, urlCall>>
  /\ UNCHANGED cvars

\* ---- createReadStream(filePath) opens the file, after the handler returned ----
StreamOpens(h) ==
  /\ posts[h].pc = "opening"
  /\ posts' = [posts EXCEPT
                 ![h].pc = IF \E g \in tempDir : SamePath(posts[h].selected, g)
                           THEN "streaming" ELSE "failed"]
  /\ UNCHANGED <<served, procs, tempDir>>
  /\ UNCHANGED <<now, rateLimitMap, downloadRateLimitMap, lhist, req, file,
                 inflight, formatsCall, urlCall>>
  /\ UNCHANGED cvars

\* the handlers other than h that have selected file f and are about to
\* stream it or stream it
Using(f, h) ==
  {g \in DOMAIN posts : g # h /\ posts[g].pc \in {"opening", "streaming"}
                         /\ SamePath(posts[g].selected, f)}

\* ---- a clean-up trigger of handler h: existsSync, unlinkSync ----
\* "end" comes from a stream that read the file, "error" from one that could
\* not open or read it, the timer after 300000 ms
TempCleanup(h, trigger) ==
  /\ trigger \in posts[h].pending
  /\ trigger = "end" => posts[h].pc = "streaming"
  /\ trigger = "error" => posts[h].pc \in {"failed", "streaming"}
  /\ LET gone == {g \in tempDir : SamePath(posts[h].selected, g)}
     IN /\ tempDir' = tempDir \ gone
        /\ posts' = [g \in DOMAIN posts |->
                       IF g = h
                       THEN [posts[g] EXCEPT
                               !.pending = @ \ {trigger},
                               !.pc = IF trigger = "timer" THEN @ ELSE "ended"]
                       ELSE IF gone # {} /\ g \in Using(posts[h].selected, h)
                                 /\ posts[g].robbed = "no"
                            THEN [posts[g] EXCEPT !.robbed = posts[g].pc]
                            ELSE posts[g]]
  /\ UNCHANGED <<served, procs>>
  /\ UNCHANGED <<now, rateLimitMap, downloadRateLimitMap, lhist, req, file,
                 inflight, formatsCall, urlCall>>
  /\ UNCHANGED cvars

TempInit ==
  /\ ClientInit
  /\ now = 0
  /\ rateLimitMap = EmptyMap
  /\ downloadRateLimitMap = EmptyMap
  /\ lhist = NoLimiterHist
  /\ req = NoRequest
  /\ file = NoFile
  /\ inflight = NoInflight
  /\ formatsCall = NoCallYet
  /\ urlCall = NoCallYet
  /\ served = NoServed
  /\ procs = {}
  /\ tempDir = {}
  /\ posts = [h \in 1..MaxPosts |-> NoPost]

TempNext ==
  \/ \E h \in 1..MaxPosts : TempPost(h)
  \/ \E h \in 1..MaxPosts : YtDlpWrites(h)
  \/ \E h \in 1..MaxPosts : ExecSettles(h)
  \/ \E h \in 1..MaxPosts : StreamOpens(h)
  \/ \E h \in 1..MaxPosts : \E trigger \in Triggers : TempCleanup(h, trigger)

TempSpec == TempInit /\ [][TempNext]_vars

\* handler h selected a file that the subprocess of another handler wrote
StreamsForeign(h) ==
  posts[h].selected # NoFileYet /\ posts[h].selected.writer # h

\* C31: concurrent download requests collide in the shared temporary
\* directory when their sanitized title and channel are identical.  A handler
\* selects a file another request's subprocess wrote, or has the file it
\* selected deleted by a clean-up trigger of another handler while it is about
\* to stream it or streams it, only if the name of that file includes the
\* name the handler searches for - as it does whenever the two sanitized
\* names are equal; the witness reaches both collisions.
C31_CollisionsShareName ==
  \A h \in DOMAIN posts :
    /\ StreamsForeign(h) =>
         /\ Includes(FullName(posts[h].selected), posts[h].filename)
         /\ Includes(posts[posts[h].selected.writer].filename, posts[h].filename)
    /\ posts[h].robbed # "no" =>
         \E g \in DOMAIN posts \ {h} :
           /\ SamePath(posts[g].selected, posts[h].selected)
           /\ Includes(FullName(posts[h].selected), posts[g].filename)
           /\ Includes(FullName(posts[h].selected), posts[h].filename)

\* two requests with the titles "a" and "a?", both sanitized to "a - c":
\* handler 1 streams the file handler 2's subprocess wrote, and its clean-up
\* deleted that file when handler 2 was about to stream it
C31_Witness ==
  /\ posts[1].title # posts[2].title
  /\ posts[1].filename = posts[2].filename
  /\ StreamsForeign(1)
  /\ posts[2].robbed = "opening"
  /\ posts[2].pc = "failed"

====
